---- MODULE Spec2Model ----
(***************************************************************************)
(* HTTP/1.1 framing over raw byte streams (go-http-server).                *)
(*                                                                         *)
(* Byte strings are sequences of octets (ASCII codes); a Go slice s[a:b]   *)
(* is SubSeq(s, a + 1, b).  Go indexes are kept 0-based in every result    *)
(* the code returns (bytes consumed, Index results).                       *)
(* Errors are named by the Go identifier of the sentinel, or by the        *)
(* format string of the fmt.Errorf that builds them; "nil" is no error.    *)
(***************************************************************************)
EXTENDS Integers, Sequences, FiniteSets, TLC

(***************************************************************************)
(* Package bytes / strings: the library calls the code makes.              *)
(***************************************************************************)

\* "\r\n"
separator == <<13, 10>>

\* bytes.Index(s, separator): 0-based index of the first CRLF, or -1.
IndexSeparator(s) ==
    IF \E i \in 1..(Len(s) - 1) : s[i] = 13 /\ s[i + 1] = 10
    THEN (CHOOSE i \in 1..(Len(s) - 1) :
              /\ s[i] = 13 /\ s[i + 1] = 10
              /\ \A j \in 1..(i - 1) : ~(s[j] = 13 /\ s[j + 1] = 10)) - 1
    ELSE -1

\* bytes.IndexByte(s, c): 0-based index of the first c, or -1.
IndexByte(s, c) ==
    IF \E i \in 1..Len(s) : s[i] = c
    THEN (CHOOSE i \in 1..Len(s) : s[i] = c /\ \A j \in 1..(i - 1) : s[j] # c) - 1
    ELSE -1

\* strings.ToLower on ASCII text.
ToLowerByte(c) == IF c \in 65..90 THEN c + 32 ELSE c

\* Every octet of s is below utf8.RuneSelf: strings.ToLower, strings.TrimSpace
\* and bytes.Fields then work octet by octet.
IsASCII(s) == \A i \in 1..Len(s) : s[i] < 128

\* utf8.RuneError, the rune an octet that is no UTF-8 decodes to.
RuneError == 65533

\* Octet i of s is there and lies in lo..hi.
OctetIn(s, i, lo, hi) == i <= Len(s) /\ s[i] \in lo..hi

\* utf8.DecodeRune(s[i-1:]): the rune that starts at octet i (1-based) and
\* its width; (RuneError, 1) when the octets are no well-formed UTF-8
\* (a lone or missing octet 0x80..0xBF, an overlong form, a surrogate, a
\* value above U+10FFFF).
DecodeRune(s, i) ==
    IF s[i] < 128 THEN [r |-> s[i], w |-> 1]
    ELSE IF s[i] \in 194..223 /\ OctetIn(s, i + 1, 128, 191)
    THEN [r |-> (s[i] - 192) * 64 + (s[i + 1] - 128), w |-> 2]
    ELSE IF /\ s[i] \in 224..239
            /\ OctetIn(s, i + 1, IF s[i] = 224 THEN 160 ELSE 128,
                                 IF s[i] = 237 THEN 159 ELSE 191)
            /\ OctetIn(s, i + 2, 128, 191)
    THEN [r |-> (s[i] - 224) * 4096 + (s[i + 1] - 128) * 64 + (s[i + 2] - 128),
          w |-> 3]
    ELSE IF /\ s[i] \in 240..244
            /\ OctetIn(s, i + 1, IF s[i] = 240 THEN 144 ELSE 128,
                                 IF s[i] = 244 THEN 143 ELSE 191)
            /\ OctetIn(s, i + 2, 128, 191)
            /\ OctetIn(s, i + 3, 128, 191)
    THEN [r |-> (s[i] - 240) * 262144 + (s[i + 1] - 128) * 4096
                  + (s[i + 2] - 128) * 64 + (s[i + 3] - 128),
          w |-> 4]
    ELSE [r |-> RuneError, w |-> 1]

\* utf8.DecodeLastRune(s[:end]): the rune that ends at octet end (1-based,
\* end > 0) and its width.  The start is looked for among the utf8.UTFMax - 1
\* octets before the last one; start0 is 0-based as in the library.
DecodeLastRuneFrom(s, end, start0) ==
    IF start0 + DecodeRune(SubSeq(s, 1, end), start0 + 1).w # end
    THEN [r |-> RuneError, w |-> 1]
    ELSE DecodeRune(SubSeq(s, 1, end), start0 + 1)
DecodeLastRuneStart(s, lim, starts) ==
    IF starts # {} THEN CHOOSE k \in starts : \A j \in starts : j <= k
    ELSE IF lim - 1 < 0 THEN 0 ELSE lim - 1
DecodeLastRuneLim(s, end, lim) ==
    DecodeLastRuneFrom(s, end,
        DecodeLastRuneStart(s, lim, {k \in lim..(end - 2) : s[k + 1] \notin 128..191}))
DecodeLastRune(s, end) ==
    IF s[end] < 128 THEN [r |-> s[end], w |-> 1]
    ELSE DecodeLastRuneLim(s, end, IF end - 4 < 0 THEN 0 ELSE end - 4)

\* utf8.EncodeRune / utf8.AppendRune
EncodeRune(r) ==
    IF r < 0 \/ r \in 55296..57343 \/ r > 1114111 THEN <<239, 191, 189>>
    ELSE IF r < 128 THEN <<r>>
    ELSE IF r < 2048 THEN <<192 + (r \div 64), 128 + (r % 64)>>
    ELSE IF r < 65536
    THEN <<224 + (r \div 4096), 128 + ((r \div 64) % 64), 128 + (r % 64)>>
    ELSE <<240 + (r \div 262144), 128 + ((r \div 4096) % 64),
           128 + ((r \div 64) % 64), 128 + (r % 64)>>

\* The runes of s from octet i on, as `for _, r := range s` and
\* bytes.FieldsFunc meet them: where each starts, its value, its width.
RECURSIVE Runes(_, _)
RunesWith(s, i, d) == <<[at |-> i, r |-> d.r, w |-> d.w]>> \o Runes(s, i + d.w)
Runes(s, i) == IF i > Len(s) THEN <<>> ELSE RunesWith(s, i, DecodeRune(s, i))

\* unicode.CaseRanges, the runes above U+007F with a lower case of their
\* own: <<first, last, stride, delta>>, the lower case of a rune of the
\* range that lies a multiple of stride after first being delta after it.
caseRanges ==
    { <<192, 214, 1, 32>>, <<216, 222, 1, 32>>, <<256, 302, 2, 1>>,
      <<304, 304, 1, -199>>, <<306, 310, 2, 1>>, <<313, 327, 2, 1>>,
      <<330, 374, 2, 1>>, <<376, 376, 1, -121>>, <<377, 381, 2, 1>>,
      <<385, 385, 1, 210>>, <<386, 388, 2, 1>>, <<390, 390, 1, 206>>,
      <<391, 391, 1, 1>>, <<393, 394, 1, 205>>, <<395, 395, 1, 1>>,
      <<398, 398, 1, 79>>, <<399, 399, 1, 202>>, <<400, 400, 1, 203>>,
      <<401, 401, 1, 1>>, <<403, 403, 1, 205>>, <<404, 404, 1, 207>>,
      <<406, 406, 1, 211>>, <<407, 407, 1, 209>>, <<408, 408, 1, 1>>,
      <<412, 412, 1, 211>>, <<413, 413, 1, 213>>, <<415, 415, 1, 214>>,
      <<416, 420, 2, 1>>, <<422, 422, 1, 218>>, <<423, 423, 1, 1>>,
      <<425, 425, 1, 218>>, <<428, 428, 1, 1>>, <<430, 430, 1, 218>>,
      <<431, 431, 1, 1>>, <<433, 434, 1, 217>>, <<435, 437, 2, 1>>,
      <<439, 439, 1, 219>>, <<440, 440, 1, 1>>, <<444, 444, 1, 1>>,
      <<452, 452, 1, 2>>, <<453, 453, 1, 1>>, <<455, 455, 1, 2>>,
      <<456, 456, 1, 1>>, <<458, 458, 1, 2>>, <<459, 475, 2, 1>>,
      <<478, 494, 2, 1>>, <<497, 497, 1, 2>>, <<498, 500, 2, 1>>,
      <<502, 502, 1, -97>>, <<503, 503, 1, -56>>, <<504, 542, 2, 1>>,
      <<544, 544, 1, -130>>, <<546, 562, 2, 1>>, <<570, 570, 1, 10795>>,
      <<571, 571, 1, 1>>, <<573, 573, 1, -163>>, <<574, 574, 1, 10792>>,
      <<577, 577, 1, 1>>, <<579, 579, 1, -195>>, <<580, 580, 1, 69>>,
      <<581, 581, 1, 71>>, <<582, 590, 2, 1>>, <<880, 882, 2, 1>>,
      <<886, 886, 1, 1>>, <<895, 895, 1, 116>>, <<902, 902, 1, 38>>,
      <<904, 906, 1, 37>>, <<908, 908, 1, 64>>, <<910, 911, 1, 63>>,
      <<913, 929, 1, 32>>, <<931, 939, 1, 32>>, <<975, 975, 1, 8>>,
      <<984, 1006, 2, 1>>, <<1012, 1012, 1, -60>>, <<1015, 1015, 1, 1>>,
      <<1017, 1017, 1, -7>>, <<1018, 1018, 1, 1>>, <<1021, 1023, 1, -130>>,
      <<1024, 1039, 1, 80>>, <<1040, 1071, 1, 32>>, <<1120, 1152, 2, 1>>,
      <<1162, 1214, 2, 1>>, <<1216, 1216, 1, 15>>, <<1217, 1229, 2, 1>>,
      <<1232, 1326, 2, 1>>, <<1329, 1366, 1, 48>>, <<4256, 4293, 1, 7264>>,
      <<4295, 4295, 1, 7264>>, <<4301, 4301, 1, 7264>>,
      <<5024, 5103, 1, 38864>>, <<5104, 5109, 1, 8>>,
      <<7312, 7354, 1, -3008>>, <<7357, 7359, 1, -3008>>,
      <<7680, 7828, 2, 1>>, <<7838, 7838, 1, -7615>>, <<7840, 7934, 2, 1>>,
      <<7944, 7951, 1, -8>>, <<7960, 7965, 1, -8>>, <<7976, 7983, 1, -8>>,
      <<7992, 7999, 1, -8>>, <<8008, 8013, 1, -8>>, <<8025, 8031, 2, -8>>,
      <<8040, 8047, 1, -8>>, <<8072, 8079, 1, -8>>, <<8088, 8095, 1, -8>>,
      <<8104, 8111, 1, -8>>, <<8120, 8121, 1, -8>>, <<8122, 8123, 1, -74>>,
      <<8124, 8124, 1, -9>>, <<8136, 8139, 1, -86>>, <<8140, 8140, 1, -9>>,
      <<8152, 8153, 1, -8>>, <<8154, 8155, 1, -100>>, <<8168, 8169, 1, -8>>,
      <<8170, 8171, 1, -112>>, <<8172, 8172, 1, -7>>,
      <<8184, 8185, 1, -128>>, <<8186, 8187, 1, -126>>,
      <<8188, 8188, 1, -9>>, <<8486, 8486, 1, -7517>>,
      <<8490, 8490, 1, -8383>>, <<8491, 8491, 1, -8262>>,
      <<8498, 8498, 1, 28>>, <<8544, 8559, 1, 16>>, <<8579, 8579, 1, 1>>,
      <<9398, 9423, 1, 26>>, <<11264, 11311, 1, 48>>, <<11360, 11360, 1, 1>>,
      <<11362, 11362, 1, -10743>>, <<11363, 11363, 1, -3814>>,
      <<11364, 11364, 1, -10727>>, <<11367, 11371, 2, 1>>,
      <<11373, 11373, 1, -10780>>, <<11374, 11374, 1, -10749>>,
      <<11375, 11375, 1, -10783>>, <<11376, 11376, 1, -10782>>,
      <<11378, 11378, 1, 1>>, <<11381, 11381, 1, 1>>,
      <<11390, 11391, 1, -10815>>, <<11392, 11490, 2, 1>>,
      <<11499, 11501, 2, 1>>, <<11506, 11506, 1, 1>>, <<42560, 42604, 2, 1>>,
      <<42624, 42650, 2, 1>>, <<42786, 42798, 2, 1>>, <<42802, 42862, 2, 1>>,
      <<42873, 42875, 2, 1>>, <<42877, 42877, 1, -35332>>,
      <<42878, 42886, 2, 1>>, <<42891, 42891, 1, 1>>,
      <<42893, 42893, 1, -42280>>, <<42896, 42898, 2, 1>>,
      <<42902, 42920, 2, 1>>, <<42922, 42922, 1, -42308>>,
      <<42923, 42923, 1, -42319>>, <<42924, 42924, 1, -42315>>,
      <<42925, 42925, 1, -42305>>, <<42926, 42926, 1, -42308>>,
      <<42928, 42928, 1, -42258>>, <<42929, 42929, 1, -42282>>,
      <<42930, 42930, 1, -42261>>, <<42931, 42931, 1, 928>>,
      <<42932, 42946, 2, 1>>, <<42948, 42948, 1, -48>>,
      <<42949, 42949, 1, -42307>>, <<42950, 42950, 1, -35384>>,
      <<42951, 42953, 2, 1>>, <<42960, 42960, 1, 1>>, <<42966, 42968, 2, 1>>,
      <<42997, 42997, 1, 1>>, <<65313, 65338, 1, 32>>,
      <<66560, 66599, 1, 40>>, <<66736, 66771, 1, 40>>,
      <<66928, 66938, 1, 39>>, <<66940, 66954, 1, 39>>,
      <<66956, 66962, 1, 39>>, <<66964, 66965, 1, 39>>,
      <<68736, 68786, 1, 64>>, <<71840, 71871, 1, 32>>,
      <<93760, 93791, 1, 32>>, <<125184, 125217, 1, 34>> }

\* unicode.ToLower(r)
ToLowerRuneIn(r, ranges) ==
    IF ranges = {} THEN r ELSE r + (CHOOSE g \in ranges : TRUE)[4]
ToLowerRune(r) ==
    IF r < 128 THEN ToLowerByte(r)
    ELSE ToLowerRuneIn(r, {g \in caseRanges :
                               r \in g[1]..g[2] /\ ((r - g[1]) % g[3]) = 0})

\* strings.Map(unicode.ToLower, s): every rune in lower case and encoded
\* anew, an octet that is no UTF-8 as U+FFFD.
RECURSIVE MapToLower(_, _)
MapToLower(rs, k) ==
    IF k > Len(rs) THEN <<>>
    ELSE EncodeRune(ToLowerRune(rs[k].r)) \o MapToLower(rs, k + 1)

\* strings.ToLower(s)
ToLower(s) ==
    IF IsASCII(s) THEN [i \in 1..Len(s) |-> ToLowerByte(s[i])]
    ELSE MapToLower(Runes(s, 1), 1)

\* strings.Trim(s, cutset) for a cutset of ASCII: s without leading and
\* trailing octets of cutset.
Trim(s, cutset) ==
    IF \A i \in 1..Len(s) : s[i] \in cutset
    THEN <<>>
    ELSE LET first == CHOOSE i \in 1..Len(s) :
                          s[i] \notin cutset /\ \A j \in 1..(i - 1) : s[j] \in cutset
             last  == CHOOSE i \in 1..Len(s) :
                          s[i] \notin cutset /\ \A j \in (i + 1)..Len(s) : s[j] \in cutset
         IN  SubSeq(s, first, last)

\* unicode.IsSpace on ASCII: '\t', '\n', '\v', '\f', '\r', ' '.
asciiSpace == {9, 10, 11, 12, 13, 32}

\* unicode.IsSpace: those, U+0085, U+00A0 and the runes of White_Space above
\* Latin-1 (U+1680, U+2000..U+200A, U+2028, U+2029, U+202F, U+205F, U+3000).
unicodeSpace ==
    asciiSpace \cup {133, 160, 5760} \cup (8192..8202)
        \cup {8232, 8233, 8239, 8287, 12288}

\* strings.TrimLeftFunc(s, unicode.IsSpace): s from its first rune that is
\* no space on.
TrimLeftRunes(s, rs) ==
    IF \A k \in 1..Len(rs) : rs[k].r \in unicodeSpace THEN <<>>
    ELSE SubSeq(s, rs[CHOOSE k \in 1..Len(rs) :
                          /\ rs[k].r \notin unicodeSpace
                          /\ \A j \in 1..(k - 1) : rs[j].r \in unicodeSpace].at,
                Len(s))
TrimLeftFunc(s) == TrimLeftRunes(s, Runes(s, 1))

\* lastIndexFunc(s, unicode.IsSpace, false): the 0-based index of the last
\* rune of s[:i] that is no space, decoding from the end; -1 when there is
\* none.
RECURSIVE lastIndexFunc(_, _)
lastIndexFuncWith(s, i, d) ==
    IF d.r \notin unicodeSpace THEN i - d.w ELSE lastIndexFunc(s, i - d.w)
lastIndexFunc(s, i) ==
    IF i <= 0 THEN -1 ELSE lastIndexFuncWith(s, i, DecodeLastRune(s, i))

\* strings.TrimRightFunc(s, unicode.IsSpace): s up to the end of that rune.
TrimRightAt(s, i) ==
    IF i >= 0 /\ s[i + 1] >= 128
    THEN SubSeq(s, 1, i + DecodeRune(s, i + 1).w)
    ELSE SubSeq(s, 1, i + 1)
TrimRightFunc(s) == TrimRightAt(s, lastIndexFunc(s, Len(s)))

\* strings.TrimSpace(s)
TrimSpace(s) ==
    IF IsASCII(s) THEN Trim(s, asciiSpace)
    ELSE TrimRightFunc(TrimLeftFunc(s))

\* strings.Contains(s, sub)
Contains(s, sub) ==
    \E i \in 0..(Len(s) - Len(sub)) : SubSeq(s, i + 1, i + Len(sub)) = sub

\* bytes.ContainsAny(s, chars)
ContainsAny(s, chars) == \E i \in 1..Len(s) : s[i] \in chars

\* bytes.Fields(s): the maximal runs of runes that are no space, in order;
\* bytes.FieldsFunc(s, unicode.IsSpace) when s has an octet above 0x7F.
\* FieldStarts / FieldEnd locate them (1-based positions in s).
FieldStartsRunes(rs) ==
    {rs[k].at : k \in {j \in 1..Len(rs) :
                          /\ rs[j].r \notin unicodeSpace
                          /\ (j = 1 \/ rs[j - 1].r \in unicodeSpace)}}
FieldStarts(s) ==
    IF IsASCII(s)
    THEN {i \in 1..Len(s) : s[i] \notin asciiSpace /\ (i = 1 \/ s[i - 1] \in asciiSpace)}
    ELSE FieldStartsRunes(Runes(s, 1))

FieldEndRunes(rs, start) ==
    LET k == CHOOSE j \in 1..Len(rs) :
                 /\ rs[j].at >= start
                 /\ (j = Len(rs) \/ rs[j + 1].r \in unicodeSpace)
                 /\ \A i \in 1..j : rs[i].at >= start => rs[i].r \notin unicodeSpace
    IN  rs[k].at + rs[k].w - 1
FieldEnd(s, start) ==
    IF IsASCII(s)
    THEN CHOOSE e \in start..Len(s) :
             /\ (e = Len(s) \/ s[e + 1] \in asciiSpace)
             /\ \A j \in start..e : s[j] \notin asciiSpace
    ELSE FieldEndRunes(Runes(s, 1), start)

RECURSIVE FieldsOf(_, _)
FieldsOf(s, starts) ==
    IF starts = {} THEN <<>>
    ELSE LET a == CHOOSE x \in starts : \A y \in starts : x <= y
         IN  <<SubSeq(s, a, FieldEnd(s, a))>> \o FieldsOf(s, starts \ {a})

Fields(s) == FieldsOf(s, FieldStarts(s))

(***************************************************************************)
(* Package headers.                                                        *)
(***************************************************************************)

\* A cap that lets one more octet through.
maxHeaderLinePlusOne == 8 * 1024 + 1

\* const maxHeaderLine = 8 * 1024
maxHeaderLine == 8 * 1024

\* NewHeaders(): the empty map.
NewHeaders == <<>>

\* Headers.Get(name): h[strings.ToLower(name)], "" when absent.
Get(h, name) == IF ToLower(name) \in DOMAIN h THEN h[ToLower(name)] ELSE <<>>

\* Headers.Delete(name)
Delete(h, name) == [k \in (DOMAIN h) \ {ToLower(name)} |-> h[k]]

\* Headers.Override(name, value): h[lower(name)] = value
Override(h, name, value) ==
    [k \in (DOMAIN h) \cup {ToLower(name)} |->
        IF k = ToLower(name) THEN value ELSE h[k]]

\* A Set that keeps the last value of a name only.
SetReplace(h, name, value) == Override(h, name, value)

\* Headers.Set(name, value): append with "," when the name is already there.
Set(h, name, value) ==
    IF ToLower(name) \in DOMAIN h
    THEN Override(h, name, h[ToLower(name)] \o <<44>> \o value)
    ELSE Override(h, name, value)

\* The table init() fills: digits, letters and "!#$%&'*+-.^_`|~".
allowed ==
    (48..57) \cup (65..90) \cup (97..122)
        \cup {33, 35, 36, 37, 38, 39, 42, 43, 45, 46, 94, 95, 96, 124, 126}

\* A check of the field name that asks for one octet and no more.
isTokenLax(b) == Len(b) > 0

\* isTokenTable(b)
isTokenTable(b) ==
    IF Len(b) = 0 THEN FALSE
    ELSE \A i \in 1..Len(b) : ~(b[i] > 127 \/ b[i] \notin allowed)

\* What Headers.Parse returns, with the map as the call leaves it.
ParseRet(h, n, done, err) == [h |-> h, n |-> n, done |-> done, err |-> err]

\* Headers.Parse(data): the loop from offset off on.
RECURSIVE HeadersParseFrom(_, _, _)
HeadersParseFrom(h, data, off) ==
    LET idx == IndexSeparator(SubSeq(data, off + 1, Len(data)))
    IN
    IF idx = -1
    THEN IF Len(data) - off > maxHeaderLine
         THEN ParseRet(h, 0, FALSE, "ErrHeaderLineTooLong")
         ELSE ParseRet(h, off, FALSE, "nil")
    ELSE IF idx > maxHeaderLine
    THEN ParseRet(h, 0, FALSE, "ErrHeaderLineTooLong")
    ELSE
    LET line   == SubSeq(data, off + 1, off + idx)
        off2   == off + idx + Len(separator)
        colon  == IndexByte(line, 58)
        nameRaw == SubSeq(line, 1, colon)
        name   == ToLower(nameRaw)
        val    == Trim(SubSeq(line, colon + 2, Len(line)), {32, 9})
    IN
    IF Len(line) = 0
    THEN ParseRet(h, off2, TRUE, "nil")
    ELSE IF line[1] = 32 \/ line[1] = 9
    THEN ParseRet(h, 0, FALSE, "ErrMalformedHeaderLine")
    ELSE IF colon <= 0
    THEN ParseRet(h, 0, FALSE, "ErrMalformedHeaderLine")
    ELSE IF ContainsAny(nameRaw, {32, 9})
    THEN ParseRet(h, 0, FALSE, "ErrMalformedHeaderLine")
    ELSE IF ~isTokenTable(nameRaw)
    THEN ParseRet(h, 0, FALSE, "ErrMalformedHeaderLine")
    ELSE HeadersParseFrom(Set(h, name, val), data, off2)

HeadersParse(h, data) == HeadersParseFrom(h, data, 0)

(***************************************************************************)
(* Package request.                                                        *)
(***************************************************************************)

RequestInitialized == 1
RequestParsingHeaders == 2
RequestParsingBody == 3
RequestDone == 4
RequestError == 5

\* const maxStartLine = 8 * 1024, const maxBodyBytes = 10 * 1024 * 1024
maxStartLine == 8 * 1024
maxBodyBytes == 10 * 1024 * 1024

\* A method set that also knows "BREW".
allowedMethodsAndBrew ==
    { <<71, 69, 84>>, <<72, 69, 65, 68>>, <<80, 79, 83, 84>>, <<80, 85, 84>>,
      <<68, 69, 76, 69, 84, 69>>, <<67, 79, 78, 78, 69, 67, 84>>,
      <<79, 80, 84, 73, 79, 78, 83>>, <<84, 82, 65, 67, 69>>,
      <<80, 65, 84, 67, 72>>, <<66, 82, 69, 87>> }

\* "GET", "HEAD", "POST", "PUT", "DELETE", "CONNECT", "OPTIONS", "TRACE", "PATCH"
allowedMethods ==
    { <<71, 69, 84>>, <<72, 69, 65, 68>>, <<80, 79, 83, 84>>, <<80, 85, 84>>,
      <<68, 69, 76, 69, 84, 69>>, <<67, 79, 78, 78, 69, 67, 84>>,
      <<79, 80, 84, 73, 79, 78, 83>>, <<84, 82, 65, 67, 69>>,
      <<80, 65, 84, 67, 72>> }

\* "HTTP/1.1"
httpVersion == <<72, 84, 84, 80, 47, 49, 46, 49>>

\* "transfer-encoding", "content-length", "chunked"
keyTransferEncoding ==
    <<116, 114, 97, 110, 115, 102, 101, 114, 45, 101, 110, 99, 111, 100, 105, 110, 103>>
keyContentLength ==
    <<99, 111, 110, 116, 101, 110, 116, 45, 108, 101, 110, 103, 116, 104>>
tokChunked == <<99, 104, 117, 110, 107, 101, 100>>

\* A *RequestLine is <<>> when nil, else a one-element sequence.
RequestLine(m, target, ver) ==
    <<[Method |-> m, RequestTarget |-> target, HTTPVersion |-> ver]>>

\* ParseRequestLine(s): (*RequestLine, bytesConsumedIncludingCRLF, error)
ParseRequestLine(s) ==
    LET idx       == IndexSeparator(s)
        startLine == SubSeq(s, 1, idx)
        ntokens   == Cardinality(FieldStarts(startLine))
        tokens    == Fields(startLine)
    IN
    IF idx = -1
    THEN [rl |-> <<>>, n |-> 0, err |-> "nil"]
    ELSE IF ntokens # 3
    THEN [rl |-> <<>>, n |-> 0, err |-> "ErrMalformedRequestLine"]
    ELSE IF tokens[1] \notin allowedMethods
    THEN [rl |-> <<>>, n |-> 0, err |-> "ErrUnsupportedHTTPMethod"]
    ELSE IF tokens[3] # httpVersion
    THEN [rl |-> <<>>, n |-> 0, err |-> "ErrUnsupportedHTTPVersion"]
    ELSE [rl  |-> RequestLine(tokens[1], tokens[2],
                              SubSeq(tokens[3], IndexByte(tokens[3], 47) + 2, Len(tokens[3]))),
          n   |-> idx + Len(separator),
          err |-> "nil"]

\* strconv.ParseInt(s, 10, 64).  ok = no error; neg = a '-' sign; val = the
\* magnitude when it has at most 9 significant digits, else big = TRUE (the
\* magnitude is then at least 10^9, above maxBodyBytes).  A magnitude that
\* does not fit int64 is the range error.
RECURSIVE DigitsValue(_)
DigitsValue(d) ==
    IF Len(d) = 0 THEN 0
    ELSE 10 * DigitsValue(SubSeq(d, 1, Len(d) - 1)) + (d[Len(d)] - 48)

\* "9223372036854775807" (and ...808 for a negative number)
int64MaxDigits ==
    <<57, 50, 50, 51, 51, 55, 50, 48, 51, 54, 56, 53, 52, 55, 55, 53, 56, 48, 55>>

RECURSIVE SeqLess(_, _)
\* a < b for byte strings, as Go compares strings.
SeqLess(a, b) ==
    IF Len(b) = 0 THEN FALSE
    ELSE IF Len(a) = 0 THEN TRUE
    ELSE IF a[1] # b[1] THEN a[1] < b[1]
    ELSE SeqLess(Tail(a), Tail(b))

ParseInt(s) ==
    LET signed == Len(s) > 0 /\ s[1] \in {43, 45}
        neg    == Len(s) > 0 /\ s[1] = 45
        digits == IF signed THEN Tail(s) ELSE s
        sig    == IF \A i \in 1..Len(digits) : digits[i] = 48 THEN <<>>
                  ELSE SubSeq(digits,
                              CHOOSE i \in 1..Len(digits) :
                                  digits[i] # 48 /\ \A j \in 1..(i - 1) : digits[j] = 48,
                              Len(digits))
        limit  == IF neg THEN [int64MaxDigits EXCEPT ![19] = 56] ELSE int64MaxDigits
    IN
    IF Len(digits) = 0 \/ \E i \in 1..Len(digits) : digits[i] \notin 48..57
    THEN [ok |-> FALSE, neg |-> FALSE, big |-> FALSE, val |-> 0]
    ELSE IF Len(sig) > 19 \/ (Len(sig) = 19 /\ SeqLess(limit, sig))
    THEN [ok |-> FALSE, neg |-> neg, big |-> TRUE, val |-> 0]
    ELSE IF Len(sig) > 9
    THEN [ok |-> TRUE, neg |-> neg, big |-> TRUE, val |-> 0]
    ELSE [ok |-> TRUE, neg |-> neg, big |-> FALSE, val |-> DigitsValue(sig)]

\* Request.hasBody(): (has, want, err)
hasBody(hdrs) ==
    LET te    == ToLower(TrimSpace(Get(hdrs, keyTransferEncoding)))
        clStr == TrimSpace(Get(hdrs, keyContentLength))
        cl    == ParseInt(clStr)
    IN
    IF te # <<>>
    THEN IF Contains(te, tokChunked)
         THEN [has |-> FALSE, want |-> 0, err |-> "transfer-encoding: chunked not supported"]
         ELSE [has |-> FALSE, want |-> 0, err |-> "unsupported transfer-encoding: %q"]
    ELSE IF clStr = <<>>
    THEN [has |-> FALSE, want |-> 0, err |-> "nil"]
    ELSE IF ~cl.ok \/ (cl.neg /\ (cl.big \/ cl.val > 0))
    THEN [has |-> FALSE, want |-> 0, err |-> "bad Content-Length: %q"]
    ELSE IF ~cl.big /\ cl.val = 0
    THEN [has |-> FALSE, want |-> 0, err |-> "nil"]
    ELSE IF cl.big \/ cl.val > maxBodyBytes
    THEN [has |-> FALSE, want |-> 0, err |-> "ErrMessageTooLarge"]
    ELSE [has |-> TRUE, want |-> cl.val, err |-> "nil"]

\* newRequest()
newRequest ==
    [RequestLine |-> <<>>, Headers |-> NewHeaders, Body |-> <<>>,
     state |-> RequestInitialized, parseErr |-> "nil"]

\* Request.done(), Request.error()
done(r) == r.state = RequestDone
error(r) == r.state = RequestError

\* A setErr that pins the state and forgets the error.
setErrStateOnly(r, err) == [r EXCEPT !.state = RequestError]

\* Request.setErr(err)
setErr(r, err) == [r EXCEPT !.parseErr = err, !.state = RequestError]

\* What Request.parse returns, with the request as the call leaves it.
ParseResult(r, n, err) == [r |-> r, n |-> n, err |-> err]

Min(a, b) == IF a < b THEN a ELSE b

\* Request.parse(data): the loop labelled outer, with read bytes consumed so
\* far.  Each case of the switch is an operator that takes what the case
\* first computes: p is what ParseRequestLine or Headers.Parse returned on
\* data[read:], b is what hasBody returned.
RECURSIVE parseFrom(_, _, _)

\* A case RequestParsingBody that takes all the bytes there are.
caseParsingBodyGreedy(r, data, read, b) ==
    IF b.err # "nil" THEN ParseResult(setErr(r, b.err), 0, b.err)
    ELSE IF ~b.has \/ Len(r.Body) >= b.want
    THEN ParseResult([r EXCEPT !.state = RequestDone], read, "nil")
    ELSE IF read = Len(data)
    THEN ParseResult(r, read, "nil")
    ELSE ParseResult([r EXCEPT !.Body = @ \o SubSeq(data, read + 1, Len(data)),
                               !.state = IF Len(r.Body) + Len(data) - read >= b.want
                                         THEN RequestDone ELSE @],
                     Len(data), "nil")

\* case RequestParsingBody
caseParsingBody(r, data, read, b) ==
    LET currentData == SubSeq(data, read + 1, Len(data))
        have        == Len(r.Body)
        toRead      == Min(b.want - have, Len(currentData))
    IN
    IF b.err # "nil" THEN ParseResult(setErr(r, b.err), 0, b.err)
    ELSE IF ~b.has
    THEN ParseResult([r EXCEPT !.state = RequestDone], read, "nil")
    ELSE IF have > b.want
    THEN ParseResult(setErr(r, "ErrRequestBodyExceedsCL"), 0, "ErrRequestBodyExceedsCL")
    ELSE IF have = b.want
    THEN ParseResult([r EXCEPT !.state = RequestDone], read, "nil")
    ELSE IF toRead <= 0
    THEN ParseResult(r, read, "nil")
    ELSE ParseResult([r EXCEPT !.Body = @ \o SubSeq(currentData, 1, toRead),
                               !.state = IF have + toRead = b.want
                                         THEN RequestDone ELSE @],
                     read + toRead, "nil")

\* case RequestParsingHeaders, at if endOfHeaders { ... }
endOfHeaders(r, data, read, b) ==
    IF b.err # "nil" THEN ParseResult(setErr(r, b.err), 0, b.err)
    ELSE IF ~b.has
    THEN ParseResult([r EXCEPT !.state = RequestDone], read, "nil")
    ELSE parseFrom([r EXCEPT !.state = RequestParsingBody], data, read)

\* A case RequestParsingHeaders that drops the bytes of an unfinished line.
caseParsingHeadersDropping(r, data, read, p) ==
    IF p.err # "nil"
    THEN ParseResult(setErr([r EXCEPT !.Headers = p.h], p.err), 0, p.err)
    ELSE IF p.n = 0 /\ ~p.done
    THEN ParseResult([r EXCEPT !.Headers = p.h], Len(data), "nil")
    ELSE IF ~p.done
    THEN parseFrom([r EXCEPT !.Headers = p.h], data, read + p.n)
    ELSE endOfHeaders([r EXCEPT !.Headers = p.h], data, read + p.n, hasBody(p.h))

\* case RequestParsingHeaders
caseParsingHeaders(r, data, read, p) ==
    IF p.err # "nil"
    THEN ParseResult(setErr([r EXCEPT !.Headers = p.h], p.err), 0, p.err)
    ELSE IF p.n = 0 /\ ~p.done
    THEN ParseResult([r EXCEPT !.Headers = p.h], read, "nil")
    ELSE IF ~p.done
    THEN parseFrom([r EXCEPT !.Headers = p.h], data, read + p.n)
    ELSE endOfHeaders([r EXCEPT !.Headers = p.h], data, read + p.n, hasBody(p.h))

\* case RequestInitialized
caseInitialized(r, data, read, p) ==
    IF p.err # "nil" THEN ParseResult(setErr(r, p.err), 0, p.err)
    ELSE IF p.n = 0 THEN ParseResult(r, read, "nil")
    ELSE parseFrom([r EXCEPT !.RequestLine = p.rl, !.state = RequestParsingHeaders],
                   data, read + p.n)

parseFrom(r, data, read) ==
    CASE r.state = RequestError -> ParseResult(r, read, "nil")
      [] r.state = RequestInitialized ->
            caseInitialized(r, data, read,
                            ParseRequestLine(SubSeq(data, read + 1, Len(data))))
      [] r.state = RequestParsingHeaders ->
            caseParsingHeaders(r, data, read,
                               HeadersParse(r.Headers, SubSeq(data, read + 1, Len(data))))
      [] r.state = RequestParsingBody ->
            caseParsingBody(r, data, read, hasBody(r.Headers))
      [] r.state = RequestDone -> ParseResult(r, read, "nil")
      [] OTHER -> ParseResult(setErr(r, "unknown state: %d"), 0, "unknown state: %d")

\* A parse that starts a finished request over (as connection reuse would).
parseRestarting(r, data) ==
    parseFrom(IF r.state = RequestDone THEN newRequest ELSE r, data, 0)

parse(r, data) == parseFrom(r, data, 0)

(***************************************************************************)
(* Package request: RequestFromReader.                                     *)
(***************************************************************************)

\* tmp := make([]byte, 1024): the most one Read can return.
tmpLen == 1024

\* What RequestFromReader returns: (*Request, error); req is <<>> when nil.
Return(req, err) == [req |-> req, err |-> err]

\* A return statement that hands the request out with the error.
IterationResultWithRequest(r, buf, returned, err) ==
    [req |-> r, buf |-> buf, returned |-> returned, ret |-> Return(<<r>>, err)]

\* One iteration of the loop `for !req.done()`, for a Read that returned the
\* bytes data (n = Len(data)) and the error rerr ("nil", "io.EOF" or another).
\* returned is FALSE when the iteration ends without a return statement;
\* the loop condition is then evaluated (LoopExit).
IterationResult(r, buf, returned, err) ==
    [req |-> r, buf |-> buf, returned |-> returned, ret |-> Return(<<>>, err)]

\* An end of the iteration that goes on reading whatever Read returned.
afterReadGoingOn(r, buf, rerr) == IterationResult(r, buf, FALSE, "nil")

\* An end of the iteration that passes io.EOF on as it is.
afterReadPlainEOF(r, buf, rerr) ==
    IF rerr = "nil" \/ (rerr = "io.EOF" /\ done(r))
    THEN IterationResult(r, buf, FALSE, "nil")
    ELSE IterationResult(r, buf, TRUE, rerr)

\* The iteration from `if err != nil` on.
afterRead(r, buf, rerr) ==
    IF rerr = "nil" \/ (rerr = "io.EOF" /\ done(r))
    THEN IterationResult(r, buf, FALSE, "nil")
    ELSE IF rerr = "io.EOF" /\ error(r)
    THEN IterationResult(r, buf, TRUE, r.parseErr)
    ELSE IF rerr = "io.EOF"
    THEN IterationResult(r, buf, TRUE, "io.ErrUnexpectedEOF")
    ELSE IterationResult(r, buf, TRUE, rerr)

\* The iteration from `readN, perr := req.parse(buf)` on; p is what parse returned.
afterParse(buf, p, rerr) ==
    IF p.err # "nil" THEN IterationResult(p.r, buf, TRUE, p.err)
    ELSE IF p.n > 0 THEN afterRead(p.r, SubSeq(buf, p.n + 1, Len(buf)), rerr)
    ELSE afterRead(p.r, buf, rerr)

\* An iteration that applies no cap.
afterAppendUncapped(r, buf, rerr) == afterParse(buf, parse(r, buf), rerr)

\* An iteration that applies the cap in every state.
afterAppendCapAlways(r, buf, rerr) ==
    IF Len(buf) > maxStartLine
    THEN IterationResult(r, buf, TRUE, "ErrMalformedRequestLine")
    ELSE afterParse(buf, parse(r, buf), rerr)

\* The iteration from `if n > 0` on; buf already holds the new bytes.
afterAppend(r, buf, rerr) ==
    IF r.state = RequestInitialized /\ Len(buf) > maxStartLine
    THEN IterationResult(r, buf, TRUE, "ErrMalformedRequestLine")
    ELSE afterParse(buf, parse(r, buf), rerr)

Iteration(r, buf, data, rerr) ==
    IF Len(data) > 0 THEN afterAppend(r, buf \o data, rerr) ELSE afterRead(r, buf, rerr)

\* The code after the loop (reached by the loop condition or by break).
LoopExit(req) ==
    IF error(req) THEN Return(<<>>, req.parseErr) ELSE Return(<<req>>, "nil")

(***************************************************************************)
(* Package response.                                                       *)
(***************************************************************************)

OK == 200
BAD_REQUEST == 400
INTERNAL_SERVER_ERROR == 500

\* StatusCodeName
StatusCodeName(code) ==
    CASE code = OK -> <<79, 75>>
      [] code = BAD_REQUEST -> <<66, 97, 100, 32, 82, 101, 113, 117, 101, 115, 116>>
      [] code = INTERNAL_SERVER_ERROR -> <<73, 110, 116, 101, 114, 110, 97, 108, 32, 83, 101, 114, 118, 101, 114, 32, 69, 114, 114, 111, 114>>
      [] OTHER -> <<85, 110, 107, 110, 111, 119, 110>>

\* strconv.Itoa / %d of a non-negative int
RECURSIVE Itoa(_)
Itoa(n) == IF n < 10 THEN <<48 + n>> ELSE Itoa(n \div 10) \o <<48 + (n % 10)>>

\* Writer.WriteStatusLine: "%s %d %s\r\n" of httpVersion, the code, the reason
StatusLine(statusCode) ==
    httpVersion \o <<32>> \o Itoa(statusCode) \o <<32>>
        \o StatusCodeName(statusCode) \o separator

\* "connection", "close", "content-type", "text/plain"
keyConnection == <<99, 111, 110, 110, 101, 99, 116, 105, 111, 110>>
keyContentType == <<99, 111, 110, 116, 101, 110, 116, 45, 116, 121, 112, 101>>

\* GetDefaultHeaders(contentLen)
GetDefaultHeaders(contentLen) ==
    Set(Set(Set(NewHeaders, keyContentLength, Itoa(contentLen)),
            keyConnection, <<99, 108, 111, 115, 101>>),
        keyContentType, <<116, 101, 120, 116, 47, 112, 108, 97, 105, 110>>)

\* strings.SplitSeq(list, ","): the pieces between commas, in order.
RECURSIVE SplitComma(_)
SplitComma(list) ==
    LET i == IndexByte(list, 44) IN
    IF i = -1 THEN <<list>>
    ELSE <<SubSeq(list, 1, i)>> \o SplitComma(SubSeq(list, i + 2, Len(list)))

\* A test that finds the token anywhere in the list, inside a longer word too.
tokenListContainsSubstring(list, token) == Contains(list, token)

\* tokenListContains(list, token)
tokenListContains(list, token) ==
    \E i \in 1..Len(SplitComma(list)) : TrimSpace(SplitComma(list)[i]) = token

\* A key written as it is stored.
KeyAsStored(k) == k

\* textproto.CanonicalMIMEHeaderKey(k): unchanged when k holds an octet that
\* is no header-field octet; else upper case at the start and after each '-',
\* lower case elsewhere.
CanonicalMIMEHeaderKey(k) ==
    IF \E i \in 1..Len(k) : k[i] \notin allowed THEN k
    ELSE [i \in 1..Len(k) |->
            IF i = 1 \/ k[i - 1] = 45
            THEN (IF k[i] \in 97..122 THEN k[i] - 32 ELSE k[i])
            ELSE ToLowerByte(k[i])]

\* sort.Strings(keys) of a key set.
RECURSIVE SortStrings(_)
SortStrings(keys) ==
    IF keys = {} THEN <<>>
    ELSE LET k == CHOOSE x \in keys : \A y \in keys \ {x} : SeqLess(x, y)
         IN  <<k>> \o SortStrings(keys \ {k})

\* Writer.WriteHeaders(h), first part: h after the writer's headers are laid
\* over it and Content-Length is dropped for a chunked Transfer-Encoding.
RECURSIVE OverlayAll(_, _, _)

\* An overlay that joins the writer's value to the one h holds, as Set does.
OverlayJoining(h, wh, keys) ==
    [k \in (DOMAIN h) \cup keys |->
        IF k \in keys /\ k \in DOMAIN h THEN h[k] \o <<44>> \o wh[k]
        ELSE IF k \in keys THEN wh[k] ELSE h[k]]

OverlayAll(h, wh, keys) ==
    IF keys = {} THEN h
    ELSE LET k == CHOOSE x \in keys : TRUE
         IN  OverlayAll(Override(h, k, Get(wh, k)), wh, keys \ {k})

EffectiveHeaders(wh, h) ==
    LET h1 == OverlayAll(h, wh, DOMAIN wh)
        te == ToLower(Get(h1, keyTransferEncoding))
    IN  IF tokenListContains(te, tokChunked) THEN Delete(h1, keyContentLength) ELSE h1

\* Writer.WriteHeaders(h), second part: the writes it makes, in order: one
\* "%s: %s\r\n" per key in sorted order, then the closing "\r\n".
HeaderWrites(wh, h) ==
    LET e    == EffectiveHeaders(wh, h)
        keys == SortStrings(DOMAIN e)
    IN  [i \in 1..(Len(keys) + 1) |->
            IF i <= Len(keys)
            THEN CanonicalMIMEHeaderKey(keys[i]) \o <<58, 32>> \o Get(e, keys[i]) \o separator
            ELSE separator]

\* Writer.WriteHeaders(h), whole: a nil h gets the closing "\r\n" and nothing
\* of the writer's headers.
WriteHeadersWrites(wh, hnil, h) == IF hnil THEN <<separator>> ELSE HeaderWrites(wh, h)

\* "%x" of a non-negative int
DecimalAsHex(n) == Itoa(n)

RECURSIVE Hex(_)
Hex(n) ==
    IF n < 16 THEN <<(IF n < 10 THEN 48 + n ELSE 87 + n)>>
    ELSE Hex(n \div 16) \o <<(IF n % 16 < 10 THEN 48 + (n % 16) ELSE 87 + (n % 16))>>

\* Writer.WriteChunkedBody: chunkSize := min(len(p), 1024)
chunkSize == 1024

\* Writer.WriteChunkedBody(p): the writes it makes, three for a chunk: the
\* size line, the bytes, "\r\n".
RECURSIVE ChunkedWrites(_)
ChunkedWrites(p) ==
    IF Len(p) = 0 THEN <<>>
    ELSE <<Hex(Min(Len(p), chunkSize)) \o separator,
           SubSeq(p, 1, Min(Len(p), chunkSize)),
           separator>>
         \o ChunkedWrites(SubSeq(p, Min(Len(p), chunkSize) + 1, Len(p)))

\* Writer.WriteChunkedBody: total after the first k writes of ws succeeded
\* and the next one, failing, wrote m bytes.  total counts the bytes of the
\* chunk writes (the second of each three).
RECURSIVE DataBytes(_, _)
DataBytes(ws, k) ==
    IF k = 0 THEN 0
    ELSE DataBytes(ws, k - 1) + (IF k % 3 = 2 THEN Len(ws[k]) ELSE 0)
ChunkedTotal(ws, k, m) == DataBytes(ws, k) + (IF (k + 1) % 3 = 2 THEN m ELSE 0)

\* Writer.Close, Writer.WriteChunkedBodyDone: "0\r\n\r\n"
chunkedTerminator == <<48, 13, 10, 13, 10>>

\* Concatenation of the first n byte strings of ws.
RECURSIVE Concat(_, _)
Concat(ws, n) == IF n = 0 THEN <<>> ELSE Concat(ws, n - 1) \o ws[n]

(***************************************************************************)
(* cmd/httpserver: the handler main() passes to server.Serve.              *)
(***************************************************************************)

\* NewWriter(conn), then writer.Headers = headers.NewHeaders()
NewWriter == [Status |-> 0, Headers |-> NewHeaders, Body |-> <<>>]

\* strings.HasPrefix(s, prefix)
HasPrefix(s, prefix) == Len(s) >= Len(prefix) /\ SubSeq(s, 1, Len(prefix)) = prefix

\* The three HTML bodies of the handler (400, 500, 200).
body400 ==
    <<60, 104, 116, 109, 108, 62, 10, 32, 32, 60, 104, 101, 97, 100, 62, 10, 32, 32, 32, 32, 60, 116, 105, 116, 108, 101, 62, 52, 48, 48, 32, 66, 97, 100, 32, 82, 101, 113, 117, 101, 115, 116, 60, 47, 116, 105, 116, 108, 101, 62, 10, 32, 32, 60, 47, 104, 101, 97, 100, 62, 10, 32, 32, 60, 98, 111, 100, 121, 62, 10, 32, 32, 32, 32, 60, 104, 49, 62, 66, 97, 100, 32, 82, 101, 113, 117, 101, 115, 116, 60, 47, 104, 49, 62, 10, 32, 32, 32, 32, 60, 112, 62, 89, 111, 117, 114, 32, 114, 101, 113, 117, 101, 115, 116, 32, 104, 111, 110, 101, 115, 116, 108, 121, 32, 107, 105, 110, 100, 97, 32, 115, 117, 99, 107, 101, 100, 46, 60, 47, 112, 62, 10, 32, 32, 60, 47, 98, 111, 100, 121, 62, 10, 60, 47, 104, 116, 109, 108, 62>>
body500 ==
    <<60, 104, 116, 109, 108, 62, 10, 32, 32, 60, 104, 101, 97, 100, 62, 10, 32, 32, 32, 32, 60, 116, 105, 116, 108, 101, 62, 53, 48, 48, 32, 73, 110, 116, 101, 114, 110, 97, 108, 32, 83, 101, 114, 118, 101, 114, 32, 69, 114, 114, 111, 114, 60, 47, 116, 105, 116, 108, 101, 62, 10, 32, 32, 60, 47, 104, 101, 97, 100, 62, 10, 32, 32, 60, 98, 111, 100, 121, 62, 10, 32, 32, 32, 32, 60, 104, 49, 62, 73, 110, 116, 101, 114, 110, 97, 108, 32, 83, 101, 114, 118, 101, 114, 32, 69, 114, 114, 111, 114, 60, 47, 104, 49, 62, 10, 32, 32, 32, 32, 60, 112, 62, 79, 107, 97, 121, 44, 32, 121, 111, 117, 32, 107, 110, 111, 119, 32, 119, 104, 97, 116, 63, 32, 84, 104, 105, 115, 32, 111, 110, 101, 32, 105, 115, 32, 111, 110, 32, 109, 101, 46, 60, 47, 112, 62, 10, 32, 32, 60, 47, 98, 111, 100, 121, 62, 10, 60, 47, 104, 116, 109, 108, 62>>
body200 ==
    <<60, 104, 116, 109, 108, 62, 10, 32, 32, 60, 104, 101, 97, 100, 62, 10, 32, 32, 32, 32, 60, 116, 105, 116, 108, 101, 62, 50, 48, 48, 32, 79, 75, 60, 47, 116, 105, 116, 108, 101, 62, 10, 32, 32, 60, 47, 104, 101, 97, 100, 62, 10, 32, 32, 60, 98, 111, 100, 121, 62, 10, 32, 32, 32, 32, 60, 104, 49, 62, 83, 117, 99, 99, 101, 115, 115, 33, 60, 47, 104, 49, 62, 10, 32, 32, 32, 32, 60, 112, 62, 89, 111, 117, 114, 32, 114, 101, 113, 117, 101, 115, 116, 32, 119, 97, 115, 32, 97, 110, 32, 97, 98, 115, 111, 108, 117, 116, 101, 32, 98, 97, 110, 103, 101, 114, 46, 60, 47, 112, 62, 10, 32, 32, 60, 47, 98, 111, 100, 121, 62, 10, 60, 47, 104, 116, 109, 108, 62>>

\* The handler up to its first wait on the world outside (client.Do for
\* /httpbin/stream, os.Open for /video): the writer with the content-type,
\* the status and the Transfer-Encoding it has set by then.
handlerStart(w, r) ==
    LET w1 == [w EXCEPT !.Headers = Set(@, keyContentType, <<116, 101, 120, 116, 47, 104, 116, 109, 108>>)]
    IN  [w1 EXCEPT !.Status = OK,
                   !.Headers = Override(Set(@, <<84, 114, 97, 110, 115, 102, 101, 114, 45, 69, 110, 99, 111, 100, 105, 110, 103>>, tokChunked),
                                        keyContentType,
                                        IF r.RequestLine[1].RequestTarget = <<47, 118, 105, 100, 101, 111>>
                                        THEN <<118, 105, 100, 101, 111, 47, 109, 112, 52>>
                                        ELSE <<116, 101, 120, 116, 47, 112, 108, 97, 105, 110>>)]

\* The handler.  ext is what the world outside the program gives it: for
\* /httpbin/stream the upstream reply (ok = FALSE: http.NewRequest or
\* client.Do failed and the handler panics), for /video the file's bytes
\* (ok = FALSE: the file could not be opened or read, nothing is appended).
\* The result is the writer as the handler leaves it, and whether it left
\* by a panic (the writer then holds what was set before panic(err)).
handler(w, r, ext) ==
    LET target == r.RequestLine[1].RequestTarget
        w1     == [w EXCEPT !.Headers = Set(@, keyContentType, <<116, 101, 120, 116, 47, 104, 116, 109, 108>>)]
    IN
    IF target = <<47, 121, 111, 117, 114, 112, 114, 111, 98, 108, 101, 109>>
    THEN [writer |-> [w1 EXCEPT !.Status = BAD_REQUEST, !.Body = body400], panic |-> FALSE]
    ELSE IF target = <<47, 109, 121, 112, 114, 111, 98, 108, 101, 109>>
    THEN [writer |-> [w1 EXCEPT !.Status = INTERNAL_SERVER_ERROR, !.Body = body500], panic |-> FALSE]
    ELSE IF HasPrefix(target, <<47, 104, 116, 116, 112, 98, 105, 110, 47, 115, 116, 114, 101, 97, 109>>)
    THEN IF ~ext.ok THEN [writer |-> handlerStart(w, r), panic |-> TRUE]
         ELSE [writer |-> [handlerStart(w, r) EXCEPT !.Body = ext.data], panic |-> FALSE]
    ELSE IF target = <<47, 118, 105, 100, 101, 111>>
    THEN [writer |-> [handlerStart(w, r) EXCEPT !.Body = @ \o (IF ext.ok THEN ext.data ELSE <<>>)],
          panic |-> FALSE]
    ELSE [writer |-> [w1 EXCEPT !.Status = OK, !.Body = body200], panic |-> FALSE]

\* The handler reads the outside world only on these two routes.
UsesExternal(r) ==
    \/ HasPrefix(r.RequestLine[1].RequestTarget, <<47, 104, 116, 116, 112, 98, 105, 110, 47, 115, 116, 114, 101, 97, 109>>)
    \/ r.RequestLine[1].RequestTarget = <<47, 118, 105, 100, 101, 111>>

(***************************************************************************)
(* Package server: Server.handle, one connection.                          *)
(***************************************************************************)

\* A reply that would leave the connection open for another request.
badRequestReplyKeepAlive ==
    <<72, 84, 84, 80, 47, 49, 46, 49, 32, 52, 48, 48, 32, 66, 97, 100, 32, 82, 101, 113, 117, 101, 115, 116, 13, 10, 67, 111, 110, 110, 101, 99, 116, 105, 111, 110, 58, 32, 107, 101, 101, 112, 45, 97, 108, 105, 118, 101, 13, 10, 67, 111, 110, 116, 101, 110, 116, 45, 76, 101, 110, 103, 116, 104, 58, 32, 48, 13, 10, 13, 10>>

\* The literal reply to a request that did not parse.
badRequestReply ==
    <<72, 84, 84, 80, 47, 49, 46, 49, 32, 52, 48, 48, 32, 66, 97, 100, 32, 82, 101, 113, 117, 101, 115, 116, 13, 10, 67, 111, 110, 110, 101, 99, 116, 105, 111, 110, 58, 32, 99, 108, 111, 115, 101, 13, 10, 67, 111, 110, 116, 101, 110, 116, 45, 76, 101, 110, 103, 116, 104, 58, 32, 48, 13, 10, 13, 10>>

(***************************************************************************)
(* The bytes a peer sends on one connection.                               *)
(***************************************************************************)

\* Largest read of a fragmented stream, in bytes (reads of 1..MaxFrag bytes).
MaxFrag == 3

\* A request line of exactly maxStartLine - 2 octets: "GET /aa...a HTTP/1.1".
longTarget == <<47>> \o [i \in 1..(maxStartLine - 2 - 14) |-> 97]
longRequest == <<71, 69, 84, 32>> \o longTarget \o <<32, 72, 84, 84, 80, 47, 49, 46, 49, 13, 10, 13, 10>>

\* A start line that never ends, longer than maxStartLine: "GET /aa...a".
overlongStartLine == <<71, 69, 84, 32>> \o longTarget \o [i \in 1..20 |-> 97]

\* A request whose start line is short and whose one header line, "X: aa...a",
\* is of maxHeaderLine - 2 octets.
longHeaderRequest ==
    <<71, 69, 84, 32, 47, 32, 72, 84, 84, 80, 47, 49, 46, 49, 13, 10, 88, 58, 32>>
        \o [i \in 1..(maxHeaderLine - 2 - 3) |-> 97] \o <<13, 10, 13, 10>>

\* A request with a header line that never ends, of 8193 octets:
\* "X: aa...a".
overlongHeaderLine ==
    <<71, 69, 84, 32, 47, 32, 72, 84, 84, 80, 47, 49, 46, 49, 13, 10, 88, 58, 32>>
        \o [i \in 1..(8 * 1024 + 1 - 3) |-> 97]

ShortStreams ==
    { <<80, 79, 83, 84, 32, 47, 120, 32, 72, 84, 84, 80, 47, 49, 46, 49, 13, 10, 67, 111, 110, 116, 101, 110, 116, 45, 76, 101, 110, 103, 116, 104, 58, 32, 194, 160, 50, 13, 10, 13, 10, 97, 98>>,
      <<71, 69, 84, 32, 47, 32, 72, 84, 84, 80, 47, 49, 46, 49, 13, 10, 13, 10>>,
      <<80, 79, 83, 84, 32, 47, 120, 32, 72, 84, 84, 80, 47, 49, 46, 49, 13, 10, 67, 111, 110, 116, 101, 110, 116, 45, 76, 101, 110, 103, 116, 104, 58, 32, 50, 13, 10, 13, 10, 97, 98>>,
      <<80, 79, 83, 84, 32, 47, 120, 32, 72, 84, 84, 80, 47, 49, 46, 49, 13, 10, 67, 111, 110, 116, 101, 110, 116, 45, 76, 101, 110, 103, 116, 104, 58, 32, 50, 13, 10, 13, 10, 97, 98, 99, 100>>,
      <<80, 79, 83, 84, 32, 47, 120, 32, 72, 84, 84, 80, 47, 49, 46, 49, 13, 10, 67, 111, 110, 116, 101, 110, 116, 45, 76, 101, 110, 103, 116, 104, 58, 32, 51, 13, 10, 13, 10, 97, 98>>,
      <<80, 79, 83, 84, 32, 47, 32, 72, 84, 84, 80, 47, 49, 46, 49, 13, 10, 67, 111, 110, 116, 101, 110, 116, 45, 76, 101, 110, 103, 116, 104, 58, 32, 48, 13, 10, 13, 10>>,
      <<71, 69, 84, 32, 47, 32, 72, 84, 84, 80, 47, 49, 46, 49, 13, 10, 67, 111, 110, 116, 101, 110, 116, 45, 76, 101, 110, 103, 116, 104, 58, 32, 120, 13, 10, 13, 10>>,
      <<71, 69, 84, 32, 47, 32, 72, 84, 84, 80, 47, 49, 46, 49, 13, 10, 84, 114, 97, 110, 115, 102, 101, 114, 45, 69, 110, 99, 111, 100, 105, 110, 103, 58, 32, 99, 104, 117, 110, 107, 101, 100, 13, 10, 13, 10>>,
      <<71, 69, 84, 32, 47, 32, 72, 84, 84, 80, 47, 49, 46, 49, 13, 10, 84, 114, 97, 110, 115, 102, 101, 114, 45, 69, 110, 99, 111, 100, 105, 110, 103, 58, 32, 103, 122, 105, 112, 13, 10, 13, 10>>,
      <<71, 69, 84, 32, 47, 32, 72, 84, 84, 80, 47, 49, 46, 49, 13, 10, 84, 114, 97, 110, 115, 102, 101, 114, 45, 69, 110, 99, 111, 100, 105, 110, 103, 58, 13, 10, 13, 10>>,
      <<71, 69, 84, 32, 47, 32, 72, 84, 84, 80, 47, 49, 46, 49, 13, 10, 88, 58, 32, 97, 13, 10, 120, 58, 32, 98, 13, 10, 88, 58, 32, 99, 13, 10, 13, 10>>,
      <<71, 69, 84, 32, 47, 32, 72, 84, 84, 80, 47, 49, 46, 49, 13, 10, 72, 111, 115, 116, 58, 32, 97, 13, 10>>,
      <<71, 69, 84, 32, 47, 32, 72, 84, 84, 80, 47, 49, 46, 49, 13, 10, 32, 88, 58, 32, 97, 13, 10, 13, 10>>,
      <<71, 69, 84, 32, 47, 13, 10, 13, 10>>,
      <<66, 82, 69, 87, 32, 47, 32, 72, 84, 84, 80, 47, 49, 46, 49, 13, 10, 13, 10>>,
      <<71, 69, 84, 32, 47, 32, 72, 84, 84, 80, 47, 49, 46, 48, 13, 10, 13, 10>>,
      <<71, 69, 84, 32, 47, 32, 72, 84, 84>>,
      <<>>,
      <<71, 69, 84, 32, 47, 121, 111, 117, 114, 112, 114, 111, 98, 108, 101, 109, 32, 72, 84, 84, 80, 47, 49, 46, 49, 13, 10, 13, 10>>,
      <<71, 69, 84, 32, 47, 109, 121, 112, 114, 111, 98, 108, 101, 109, 32, 72, 84, 84, 80, 47, 49, 46, 49, 13, 10, 13, 10>>,
      <<71, 69, 84, 32, 47, 104, 116, 116, 112, 98, 105, 110, 47, 115, 116, 114, 101, 97, 109, 47, 50, 32, 72, 84, 84, 80, 47, 49, 46, 49, 13, 10, 13, 10>>,
      <<71, 69, 84, 32, 47, 118, 105, 100, 101, 111, 32, 72, 84, 84, 80, 47, 49, 46, 49, 13, 10, 13, 10>>,
      \* "POST /x HTTP/1.1\r\nContent-Length:\r\n\r\nzz"
      <<80, 79, 83, 84, 32, 47, 120, 32, 72, 84, 84, 80, 47, 49, 46, 49, 13, 10, 67, 111, 110, 116, 101, 110, 116, 45, 76, 101, 110, 103, 116, 104, 58, 13, 10, 13, 10, 122, 122>>,
      \* "POST /x HTTP/1.1\r\nContent-Length: 10485761\r\n\r\nzz"
      <<80, 79, 83, 84, 32, 47, 120, 32, 72, 84, 84, 80, 47, 49, 46, 49, 13, 10, 67, 111, 110, 116, 101, 110, 116, 45, 76, 101, 110, 103, 116, 104, 58, 32, 49, 48, 52, 56, 53, 55, 54, 49, 13, 10, 13, 10, 122, 122>> }

\* How a stream ends once its bytes are read: the peer closed its side, or
\* the read fails (reset, deadline).
Endings == {"io.EOF", "read error"}

\* An input: the bytes, how they end, and the sizes a Read may return
\* (each capped by the bytes left and by len(tmp)).
Inputs ==
    [bytes : ShortStreams, ending : Endings, sizes : {1..MaxFrag, {tmpLen}}]
        \cup [bytes : {longRequest, overlongStartLine, longHeaderRequest, overlongHeaderLine},
              ending : {"io.EOF"},
              sizes : {{tmpLen}, {tmpLen \div 2, tmpLen}}]

\* What the handler can get from outside the program.
Externals ==
    [ok : BOOLEAN, data : {<<>>, <<104, 101, 108, 108, 111>>, <<48, 13, 10, 13, 10>>}]

(***************************************************************************)
(* Inputs of direct calls of Request.parse and Headers.Parse.              *)
(***************************************************************************)

\* Most calls of Request.parse made on one Request.
MaxCalls == 4

\* "X: aa...a" of exactly maxHeaderLine octets, and of one octet more.
capLine == <<88, 58, 32>> \o [i \in 1..(maxHeaderLine - 3) |-> 97]
overCapLine == capLine \o <<97>>

\* The data a caller may hand to Request.parse.
ParseData ==
    { <<71, 69, 84, 32, 47, 32, 72, 84, 84, 80, 47, 49, 46, 49, 13, 10>>,
      <<71, 69, 84, 32, 47, 32, 72, 84>>,
      <<72, 111, 115, 116, 58, 32, 97, 13, 10>>,
      <<67, 111, 110, 116, 101, 110, 116, 45, 76, 101, 110, 103, 116, 104, 58, 32, 50, 13, 10>>,
      <<84, 114, 97, 110, 115, 102, 101, 114, 45, 69, 110, 99, 111, 100, 105, 110, 103, 58, 32, 99, 104, 117, 110, 107, 101, 100, 13, 10>>,
      <<32, 120, 58, 32, 121, 13, 10>>,
      <<13, 10>>,
      <<97>>,
      <<97, 98, 99>>,
      <<66, 65, 68, 13, 10>>,
      <<80, 79, 83, 84, 32, 47, 120, 32, 72, 84, 84, 80, 47, 49, 46, 49, 13, 10, 67, 111, 110, 116, 101, 110, 116, 45, 76, 101, 110, 103, 116, 104, 58, 32, 49, 13, 10, 13, 10, 122>>,
      \* "POST /x HTTP/1.1\r\nContent-Length: 4\r\n\r\n"
      <<80, 79, 83, 84, 32, 47, 120, 32, 72, 84, 84, 80, 47, 49, 46, 49, 13, 10, 67, 111, 110, 116, 101, 110, 116, 45, 76, 101, 110, 103, 116, 104, 58, 32, 52, 13, 10, 13, 10>>,
      \* "POST /x HTTP/1.1\r\nContent-Length: 0\r\n\r\nzz"
      <<80, 79, 83, 84, 32, 47, 120, 32, 72, 84, 84, 80, 47, 49, 46, 49, 13, 10, 67, 111, 110, 116, 101, 110, 116, 45, 76, 101, 110, 103, 116, 104, 58, 32, 48, 13, 10, 13, 10, 122, 122>>,
      \* "GET / HTTP/1.1\r\n\r\nzz"
      <<71, 69, 84, 32, 47, 32, 72, 84, 84, 80, 47, 49, 46, 49, 13, 10, 13, 10, 122, 122>>,
      \* "POST /x HTTP/1.1\r\nContent-Length: abc\r\n\r\nzz"
      <<80, 79, 83, 84, 32, 47, 120, 32, 72, 84, 84, 80, 47, 49, 46, 49, 13, 10, 67, 111, 110, 116, 101, 110, 116, 45, 76, 101, 110, 103, 116, 104, 58, 32, 97, 98, 99, 13, 10, 13, 10, 122, 122>>,
      \* "POST /x HTTP/1.1\r\nContent-Length: -1\r\n\r\nzz"
      <<80, 79, 83, 84, 32, 47, 120, 32, 72, 84, 84, 80, 47, 49, 46, 49, 13, 10, 67, 111, 110, 116, 101, 110, 116, 45, 76, 101, 110, 103, 116, 104, 58, 32, 45, 49, 13, 10, 13, 10, 122, 122>>,
      \* "POST /x HTTP/1.1\r\nContent-Length: 10485761\r\n\r\nzz"
      <<80, 79, 83, 84, 32, 47, 120, 32, 72, 84, 84, 80, 47, 49, 46, 49, 13, 10, 67, 111, 110, 116, 101, 110, 116, 45, 76, 101, 110, 103, 116, 104, 58, 32, 49, 48, 52, 56, 53, 55, 54, 49, 13, 10, 13, 10, 122, 122>>,
      \* "POST /x HTTP/1.1\r\nContent-Length: 10485760\r\n\r\nzz"
      <<80, 79, 83, 84, 32, 47, 120, 32, 72, 84, 84, 80, 47, 49, 46, 49, 13, 10, 67, 111, 110, 116, 101, 110, 116, 45, 76, 101, 110, 103, 116, 104, 58, 32, 49, 48, 52, 56, 53, 55, 54, 48, 13, 10, 13, 10, 122, 122>>,
      \* "POST /x HTTP/1.1\r\nContent-Length:\r\n\r\nzz"
      <<80, 79, 83, 84, 32, 47, 120, 32, 72, 84, 84, 80, 47, 49, 46, 49, 13, 10, 67, 111, 110, 116, 101, 110, 116, 45, 76, 101, 110, 103, 116, 104, 58, 13, 10, 13, 10, 122, 122>> }

\* Most lines of a header block handed to Headers.Parse.
MaxLines == 2

\* The lines (without CRLF) a header block is made of.
HeaderLines ==
    { <<88, 58, 32, 97>>,
      <<120, 58, 98, 32, 32>>,
      <<72, 111, 115, 116, 58, 32, 104, 58, 49>>,
      <<88, 45, 80, 58>>,
      <<32, 88, 58, 32, 97>>,
      <<9, 88, 58, 32, 97>>,
      <<88, 32, 97>>,
      <<58, 32, 97>>,
      <<88, 32, 121, 58, 32, 97>>,
      <<88, 32, 58, 32, 97>>,
      <<88, 64, 58, 32, 97>>,
      <<88, 200, 58, 32, 97>> }

\* All sequences of at most n lines.
RECURSIVE LineSeqs(_)
LineSeqs(n) ==
    IF n = 0 THEN {<<>>}
    ELSE LineSeqs(n - 1)
           \cup {Append(ls, l) : ls \in {x \in LineSeqs(n - 1) : Len(x) = n - 1},
                                 l \in HeaderLines}

\* The blocks that hold a line at the cap or over it, alone or after "X: a".
LongBlocks ==
    { <<capLine>>, <<overCapLine>>,
      <<<<88, 58, 32, 97>>, capLine>>, <<<<88, 58, 32, 97>>, overCapLine>> }

\* How many bytes of a block arrive at once: 1..MaxFrag of a short block;
\* of a block with a long line, about as many as the cap.
FeedSizes(len) ==
    IF len <= maxHeaderLine THEN 1..MaxFrag
    ELSE {maxHeaderLine + d : d \in 0..8}

\* The header block made of lines, each followed by CRLF, and of the blank
\* line when term.
RECURSIVE Block(_, _)
Block(lines, term) ==
    IF Len(lines) = 0 THEN (IF term THEN separator ELSE <<>>)
    ELSE Head(lines) \o separator \o Block(Tail(lines), term)

(***************************************************************************)
(* State.                                                                  *)
(***************************************************************************)
VARIABLES
    stream,   \* the input of the connection: [bytes, ending, sizes]
    pos,      \* how many bytes of stream.bytes conn.Read has returned
    readErr,  \* RequestFromReader: err of the last Read
    buf,      \* RequestFromReader: buf
    req,      \* RequestFromReader: req
    ret,      \* what RequestFromReader returned
    pc,       \* where Server.handle is
    writer,   \* Server.handle: writer
    events,   \* the calls Server.handle has made, in order: [call, data, ok]
    log,      \* the access-log records
    pt,       \* a Request under direct calls of parse, with the last call
    ht,       \* a Headers under direct calls of Parse, with the last call
    wt,       \* a Writer under direct calls of its methods, with the last call
    sv        \* a Server: its flag, its listener, the tasks that use it

vars == <<stream, pos, readErr, buf, req, ret, pc, writer, events, log, pt, ht, wt, sv>>

Remaining == Len(stream.bytes) - pos

\* One call Server.handle made: a write of data to conn (ok: it succeeded),
\* the handler (ok: it returned), or conn.Close.
Event(call, data, ok) == [call |-> call, data |-> data, ok |-> ok]

\* The bytes written to conn: the data of the writes that succeeded.
RECURSIVE WireOf(_)
WireOf(es) ==
    IF Len(es) = 0 THEN <<>>
    ELSE WireOf(SubSeq(es, 1, Len(es) - 1))
           \o (IF es[Len(es)].ok THEN es[Len(es)].data ELSE <<>>)

Wire == WireOf(events)

\* The access-log record of one request.
LogRecord(method, target, status, err) ==
    [method |-> method, target |-> target, status |-> status, err |-> err]

\* The state of the direct-call harnesses before any call.
ptInit ==
    [r |-> newRequest, prev |-> newRequest, data |-> <<>>, n |-> 0, err |-> "nil",
     calls |-> 0]
htInit(lines, term) ==
    [lines |-> lines, term |-> term, avail |-> 0, off |-> 0, h |-> NewHeaders,
     n |-> 0, done |-> FALSE, err |-> "nil", calls |-> 0]

\* A Writer on which no method has been called yet.  op is the last method
\* called, with what it was given (wh: the Writer's Headers; h: the headers
\* passed, hnil when nil; p: the bytes passed); writes are the bytes of all
\* Write calls made on the io.Writer so far, prior those before the call.
wtInit ==
    [op |-> "none", wh |-> NewHeaders, h |-> NewHeaders, hnil |-> FALSE, p |-> <<>>,
     prior |-> 0, writes |-> <<>>, n |-> 0, err |-> "nil", calls |-> 0]

\* Most goroutines that call Server.Close, most connections accepted, most
\* errors of Accept after which the loop goes on.
MaxClosers == 2
MaxConns == 2
MaxAcceptErrors == 1

\* A Server that Serve has just returned: the flag closed, the listener
\* (closes counts the calls of listener.Close), the goroutine of listen
\* (loop) with the connections it has handed to handle, and the goroutines
\* that call Close: where each is, what Swap gave it, what it returned and
\* whether it called listener.Close.  pcAtClose is where the first
\* connection was when the listener was closed; accepts is what the calls
\* of Accept gave so far: "conn", or "error" followed by what the loop did;
\* late counts the tasks started when the listener was closed already;
\* crashed says that the handler of a task other than the first has
\* panicked.
svInit ==
    [closed |-> FALSE, listener |-> "open", closes |-> 0, loop |-> "Accept",
     spawned |-> 0, late |-> 0, crashed |-> FALSE, pcAtClose |-> "none", accepts |-> <<>>,
     callers |-> [c \in 1..MaxClosers |->
                    [pc |-> "Close", old |-> FALSE, ret |-> "none", touched |-> FALSE]]]

\* A panic of a handler is not recovered (handle defers conn.Close and
\* nothing else): it ends the program, and with it every goroutine.
ProcessEnded == pc = "panic" \/ sv.crashed

connInit(in) ==
    /\ stream = in
    /\ pos = 0
    /\ readErr = "nil"
    /\ buf = <<>>
    /\ req = newRequest
    /\ ret = Return(<<>>, "nil")
    /\ pc = "RequestFromReader"
    /\ writer = NewWriter
    /\ events = <<>>
    /\ log = <<>>

Init ==
    /\ \E in \in Inputs : connInit(in)
    /\ pt = ptInit
    /\ ht = htInit(<<>>, FALSE)
    /\ wt = wtInit
    /\ sv = svInit

\* RequestFromReader: the state after one iteration of the loop, it, that a
\* Read of n bytes and error rerr started, followed by the loop condition.
Iterated(n, rerr, it) ==
    /\ pos' = pos + n
    /\ readErr' = rerr
    /\ req' = it.req
    /\ buf' = it.buf
    /\ IF it.returned
       THEN ret' = it.ret /\ pc' = "returned"
       ELSE IF done(it.req)
       THEN ret' = LoopExit(it.req) /\ pc' = "returned"
       ELSE ret' = ret /\ pc' = pc
    /\ UNCHANGED <<stream, writer, events, log, pt, ht, wt, sv>>

ReadWith(data, rerr) == Iterated(Len(data), rerr, Iteration(req, buf, data, rerr))

\* conn.Read(tmp) returns some bytes, and io.EOF with them when they are the
\* last ones and the peer has closed.
Read ==
    /\ ~sv.crashed
    /\ pc = "RequestFromReader"
    /\ Remaining > 0
    /\ \E k \in stream.sizes :
         \E rerr \in {"nil"} \cup
                     (IF Min(k, tmpLen) >= Remaining /\ stream.ending = "io.EOF"
                      THEN {"io.EOF"} ELSE {}) :
            ReadWith(SubSeq(stream.bytes, pos + 1, pos + Min(Min(k, tmpLen), Remaining)),
                     rerr)

\* conn.Read(tmp) returns no bytes and the error the stream ends with.
ReadEnd ==
    /\ ~sv.crashed
    /\ pc = "RequestFromReader"
    /\ Remaining = 0
    /\ ReadWith(<<>>, stream.ending)

\* Server.handle: RequestFromReader failed; log, and go on to write the
\* literal reply.
BadRequest ==
    /\ ~sv.crashed
    /\ pc = "returned"
    /\ ret.err # "nil"
    /\ log' = Append(log, LogRecord(<<45>>, <<45>>, BAD_REQUEST, ret.err))
    /\ pc' = "io.WriteString"
    /\ UNCHANGED <<stream, pos, readErr, buf, req, ret, writer, events, pt, ht, wt, sv>>

\* Server.handle: the write of the literal reply returns (its error is
\* ignored), handle returns and the deferred conn.Close runs.
WriteBadRequest ==
    /\ ~sv.crashed
    /\ pc = "io.WriteString"
    /\ \E ok \in BOOLEAN :
         events' = events \o <<Event("io.WriteString", badRequestReply, ok),
                               Event("conn.Close", <<>>, TRUE)>>
    /\ pc' = "closed"
    /\ UNCHANGED <<stream, pos, readErr, buf, req, ret, writer, log, pt, ht, wt, sv>>

\* What follows the call of the handler, which left out: the writer as the
\* handler left it, and whether it panicked (the deferred conn.Close runs and
\* the process dies).
Handled(out) ==
    /\ writer' = out.writer
    /\ IF out.panic
       THEN /\ events' = events \o <<Event("handler", <<>>, FALSE),
                                     Event("conn.Close", <<>>, TRUE)>>
            /\ pc' = "panic"
       ELSE /\ events' = Append(events, Event("handler", <<>>, TRUE))
            /\ pc' = "WriteStatusLine"

\* Server.handle: the handler is called with a new writer.  On the routes
\* that go outside the program it runs up to its first wait; on the others
\* it returns without waiting.
CallHandler ==
    /\ ~sv.crashed
    /\ pc = "returned"
    /\ ret.err = "nil"
    /\ IF UsesExternal(ret.req[1])
       THEN /\ writer' = handlerStart(NewWriter, ret.req[1])
            /\ pc' = "handler"
            /\ events' = events
       ELSE Handled(handler(NewWriter, ret.req[1], [ok |-> TRUE, data |-> <<>>]))
    /\ UNCHANGED <<stream, pos, readErr, buf, req, ret, log, pt, ht, wt, sv>>

\* Most octets one f.Read of the handler gives when it does not give all
\* that is left of the file.
MaxFilePiece == 3

\* The handler waits on the world outside, and what it waits for comes.
\* /httpbin/stream: client.Do and io.ReadAll return the upstream reply, or
\* http.NewRequest or client.Do failed and the handler panics.  /video:
\* f.Read gives the next octets of the file (MaxFilePiece of them, or all
\* that is left), which are appended to w.Body; or it gives io.EOF or an
\* error (os.Open failed: the first f.Read gives an error) and the handler
\* returns.
HandlerWait ==
    /\ ~sv.crashed
    /\ pc = "handler"
    /\ IF ret.req[1].RequestLine[1].RequestTarget = <<47, 118, 105, 100, 101, 111>>
       THEN \/ \E ext \in Externals :
                 /\ ext.ok
                 /\ Len(ext.data) > Len(writer.Body)
                 /\ SubSeq(ext.data, 1, Len(writer.Body)) = writer.Body
                 /\ \E n \in {Min(Len(writer.Body) + MaxFilePiece, Len(ext.data)), Len(ext.data)} :
                      writer' = [writer EXCEPT !.Body = SubSeq(ext.data, 1, n)]
                 /\ UNCHANGED <<pc, events>>
            \/ Handled([writer |-> writer, panic |-> FALSE])
       ELSE \E ext \in Externals : Handled(handler(NewWriter, ret.req[1], ext))
    /\ UNCHANGED <<stream, pos, readErr, buf, req, ret, log, pt, ht, wt, sv>>

\* A failed write after which handle goes on to the body.
WriteFailedGoingOn(call, before, data) ==
    /\ events' = events \o before \o <<Event(call, data, FALSE)>>
                    \o (IF call = "WriteBody" THEN <<Event("conn.Close", <<>>, TRUE)>>
                        ELSE <<>>)
    /\ log' = Append(log, LogRecord(ret.req[1].RequestLine[1].Method,
                                    ret.req[1].RequestLine[1].RequestTarget,
                                    INTERNAL_SERVER_ERROR, "write error"))
    /\ pc' = IF call = "WriteBody" THEN "closed" ELSE "WriteBody"

\* A return after a failed write that leaves the connection open.
WriteFailedOpen(call, before, data) ==
    /\ events' = events \o before \o <<Event(call, data, FALSE)>>
    /\ log' = Append(log, LogRecord(ret.req[1].RequestLine[1].Method,
                                    ret.req[1].RequestLine[1].RequestTarget,
                                    INTERNAL_SERVER_ERROR, "write error"))
    /\ pc' = "closed"

\* The return after a write of data failed in call, after the writes done
\* before it in the same call: log with status 500, close.
WriteFailed(call, before, data) ==
    /\ events' = events \o before
                    \o <<Event(call, data, FALSE), Event("conn.Close", <<>>, TRUE)>>
    /\ log' = Append(log, LogRecord(ret.req[1].RequestLine[1].Method,
                                    ret.req[1].RequestLine[1].RequestTarget,
                                    INTERNAL_SERVER_ERROR, "write error"))
    /\ pc' = "closed"

\* Server.handle: 1) status line
WriteStatusLine ==
    /\ ~sv.crashed
    /\ pc = "WriteStatusLine"
    /\ \/ /\ events' = Append(events, Event("WriteStatusLine", StatusLine(writer.Status), TRUE))
          /\ pc' = "WriteHeaders"
          /\ log' = log
       \/ WriteFailed("WriteStatusLine", <<>>, StatusLine(writer.Status))
    /\ UNCHANGED <<stream, pos, readErr, buf, req, ret, writer, pt, ht, wt, sv>>

\* Server.handle: 2) headers, ws being the writes WriteHeaders has to make
\* and k those it has made: the next write returns.  After the last one
\* handle goes on to the body; WriteHeaders stops at its first failed write.
WriteHeadersOf(ws, k) ==
    \/ /\ events' = Append(events, Event("WriteHeaders", ws[k + 1], TRUE))
       /\ pc' = IF k + 1 = Len(ws) THEN "WriteBody" ELSE pc
       /\ log' = log
    \/ WriteFailed("WriteHeaders", <<>>, ws[k + 1])

WriteHeaders ==
    /\ ~sv.crashed
    /\ pc = "WriteHeaders"
    /\ WriteHeadersOf(HeaderWrites(writer.Headers, GetDefaultHeaders(Len(writer.Body))),
                      Cardinality({ i \in 1..Len(events) : events[i].call = "WriteHeaders" }))
    /\ UNCHANGED <<stream, pos, readErr, buf, req, ret, writer, pt, ht, wt, sv>>

\* Server.handle: 3) body, the access log, return.
WriteBody ==
    /\ ~sv.crashed
    /\ pc = "WriteBody"
    /\ \/ /\ events' = events \o <<Event("WriteBody", writer.Body, TRUE),
                                   Event("conn.Close", <<>>, TRUE)>>
          /\ log' = Append(log, LogRecord(ret.req[1].RequestLine[1].Method,
                                          ret.req[1].RequestLine[1].RequestTarget,
                                          writer.Status, "nil"))
          /\ pc' = "closed"
       \/ WriteFailed("WriteBody", <<>>, writer.Body)
    /\ UNCHANGED <<stream, pos, readErr, buf, req, ret, writer, pt, ht, wt, sv>>

Next ==
    \/ Read
    \/ ReadEnd
    \/ BadRequest
    \/ WriteBadRequest
    \/ CallHandler
    \/ HandlerWait
    \/ WriteStatusLine
    \/ WriteHeaders
    \/ WriteBody

Spec == Init /\ [][Next]_vars

(***************************************************************************)
(* Direct calls of Request.parse on one Request, with any data.            *)
(***************************************************************************)

\* The harness after a call of parse(data) that returned p.
Parsed(data, p) ==
    pt' = [r |-> p.r, prev |-> pt.r, data |-> data, n |-> p.n, err |-> p.err,
           calls |-> pt.calls + 1]

ParseCall ==
    /\ pt.calls < MaxCalls
    /\ \E data \in ParseData : Parsed(data, parse(pt.r, data))
    /\ UNCHANGED <<stream, pos, readErr, buf, req, ret, pc, writer, events, log, ht, wt, sv>>

InitParse ==
    /\ connInit([bytes |-> <<>>, ending |-> "io.EOF", sizes |-> {tmpLen}])
    /\ pt = ptInit
    /\ ht = htInit(<<>>, FALSE)
    /\ wt = wtInit
    /\ sv = svInit

NextParse == ParseCall

SpecParse == InitParse /\ [][NextParse]_vars

\* Data with lines that do not end, short ones and ones at the cap.
UnfinishedData ==
    { <<71, 69, 84, 32, 47, 32, 72, 84, 84, 80, 47, 49, 46, 49, 13, 10>>,
      <<71, 69, 84, 32, 47, 32, 72, 84>>,
      <<72, 111, 115, 116, 58, 32, 97, 13, 10>>,
      <<72, 111, 115, 116, 58, 32, 97, 13>>,
      <<97>>,
      <<>>,
      capLine,
      overCapLine }

\* Calls of Request.parse with such data.
ParseUnfinishedCall ==
    /\ pt.calls < MaxCalls
    /\ \E data \in UnfinishedData : Parsed(data, parse(pt.r, data))
    /\ UNCHANGED <<stream, pos, readErr, buf, req, ret, pc, writer, events, log, ht, wt, sv>>

NextParseUnfinished == ParseUnfinishedCall

SpecParseUnfinished == InitParse /\ [][NextParseUnfinished]_vars

(***************************************************************************)
(* Direct calls of Headers.Parse on one Headers: a header block arrives in *)
(* pieces and Parse is called on the bytes not yet consumed.               *)
(***************************************************************************)

HeaderData == Block(ht.lines, ht.term)

\* The harness after avail bytes are there and Parse returned p.
HeadersParsed(avail, p) ==
    ht' = [ht EXCEPT !.avail = avail, !.off = @ + p.n, !.h = p.h, !.n = p.n,
                     !.done = p.done, !.err = p.err, !.calls = @ + 1]

HeadersFeedTo(avail) ==
    HeadersParsed(avail, HeadersParse(ht.h, SubSeq(HeaderData, ht.off + 1, avail)))

HeadersCall ==
    /\ ht.err = "nil" /\ ~ht.done
    /\ ht.avail < Len(HeaderData) \/ ht.calls = 0
    /\ \E k \in FeedSizes(Len(HeaderData)) \cup {Len(HeaderData)} :
         HeadersFeedTo(Min(ht.avail + k, Len(HeaderData)))
    /\ UNCHANGED <<stream, pos, readErr, buf, req, ret, pc, writer, events, log, pt, wt, sv>>

InitHeaders ==
    /\ connInit([bytes |-> <<>>, ending |-> "io.EOF", sizes |-> {tmpLen}])
    /\ pt = ptInit
    /\ \E lines \in LineSeqs(MaxLines) \cup LongBlocks, term \in BOOLEAN :
         ht = htInit(lines, term)
    /\ wt = wtInit
    /\ sv = svInit

NextHeaders == HeadersCall

SpecHeaders == InitHeaders /\ [][NextHeaders]_vars

(***************************************************************************)
(* Properties.                                                             *)
(***************************************************************************)

\* RequestFromReader on a reader that returns the bytes whole: every Read
\* fills tmp as far as bytes are left, and the end of the stream comes alone.
RECURSIVE WholeFrom(_, _, _, _)
WholeNext(it, rest, ending) ==
    IF it.returned THEN it.ret
    ELSE IF done(it.req) THEN LoopExit(it.req)
    ELSE WholeFrom(it.req, it.buf, rest, ending)
WholeFrom(r, b, rest, ending) ==
    IF Len(rest) = 0
    THEN WholeNext(Iteration(r, b, <<>>, ending), rest, ending)
    ELSE WholeNext(Iteration(r, b, SubSeq(rest, 1, Min(tmpLen, Len(rest))), "nil"),
                   SubSeq(rest, Min(tmpLen, Len(rest)) + 1, Len(rest)), ending)
RequestFromReaderWhole(in) == WholeFrom(newRequest, <<>>, in.bytes, in.ending)

\* C1: fragmentation invariance.  However the bytes of a stream are split
\* across reads, RequestFromReader returns what it returns when they arrive
\* whole: the same Request (request line, headers, body) or the same error.
FragmentationInvariance ==
    pc # "RequestFromReader" => ret = RequestFromReaderWhole(stream)

\* The moves of the parse state the state machine allows: none; forward
\* along Initialized -> ParsingHeaders -> ParsingBody -> Done (steps may be
\* skipped); to Error from a non-terminal state.
Forward(s, t) ==
    \/ t = s
    \/ /\ s \in {RequestInitialized, RequestParsingHeaders, RequestParsingBody}
       /\ t \in {RequestParsingHeaders, RequestParsingBody, RequestDone}
       /\ t > s
    \/ /\ s \in {RequestInitialized, RequestParsingHeaders, RequestParsingBody}
       /\ t = RequestError

\* C2: the parse state is monotonic.  Every call of parse, with any data,
\* leaves the state where it is or moves it forward; Error is entered only
\* from a non-terminal state; Done and Error are never left.
StateMonotonic == [][Forward(pt.r.state, pt'.r.state)]_vars

\* C2 witness: parse was called with data on a request that was Done, after
\* the state had gone through the body, and once before on an Error-free path.
StateMonotonicWitness ==
    /\ pt.calls >= 2
    /\ pt.prev.state = RequestDone
    /\ Len(pt.prev.Body) > 0
    /\ Len(pt.data) > 0

\* "HTTP/1.1 400 Bad Request\r\nConnection: close\r\nContent-Length: 0\r\n\r\n"
literal400 ==
    <<72, 84, 84, 80, 47, 49, 46, 49, 32, 52, 48, 48, 32, 66, 97, 100, 32, 82, 101, 113, 117, 101, 115, 116, 13, 10, 67, 111, 110, 110, 101, 99, 116, 105, 111, 110, 58, 32, 99, 108, 111, 115, 101, 13, 10, 67, 111, 110, 116, 101, 110, 116, 45, 76, 101, 110, 103, 116, 104, 58, 32, 48, 13, 10, 13, 10>>

\* C3: a request that fails to parse never reaches the handler.  Once
\* RequestFromReader has returned an error the handler is never called and
\* the writer is never used; the connection task logs the request with
\* status 400, makes one write, of the literal 400 reply, and closes the
\* connection, so that the bytes on the wire are that literal and nothing
\* else; before that write returns nothing is on the wire.
FailedParseNeverReachesHandler ==
    (pc # "RequestFromReader" /\ ret.err # "nil") =>
        /\ ret.req = <<>>
        /\ writer = NewWriter
        /\ \A i \in 1..Len(events) : events[i].call \in {"io.WriteString", "conn.Close"}
        /\ pc \in {"returned", "io.WriteString", "closed"}
        /\ pc = "returned" => events = <<>> /\ log = <<>>
        /\ pc = "io.WriteString" => events = <<>>
        /\ pc \in {"io.WriteString", "closed"} =>
              log = <<LogRecord(<<45>>, <<45>>, BAD_REQUEST, ret.err)>>
        /\ pc = "closed" =>
              /\ Len(events) = 2
              /\ events[1].call = "io.WriteString" /\ events[1].data = literal400
              /\ events[2].call = "conn.Close"
              /\ Wire \in {literal400, <<>>}
              /\ events[1].ok => Wire = literal400

\* C3 witness: a request with a malformed header line was answered with the
\* literal reply and the connection is closed.
FailedParseWitness ==
    /\ pc = "closed"
    /\ ret.err = "ErrMalformedHeaderLine"
    /\ Wire = literal400

\* The value of a string of hexadecimal digits, -1 when it is not one.
RECURSIVE HexValue(_)
HexDigit(c) ==
    IF c \in 48..57 THEN c - 48
    ELSE IF c \in 97..102 THEN c - 87
    ELSE IF c \in 65..70 THEN c - 55
    ELSE -1
HexLast(c, front) == IF c = -1 \/ front = -1 THEN -1 ELSE 16 * front + c
HexValue(s) ==
    IF Len(s) = 0 THEN -1
    ELSE IF Len(s) = 1 THEN HexDigit(s[1])
    ELSE HexLast(HexDigit(s[Len(s)]), HexValue(SubSeq(s, 1, Len(s) - 1)))

\* b is a chunked body: <hex-size>\r\n<bytes>\r\n chunks and then 0\r\n\r\n.
RECURSIVE IsChunkedBody(_)
ChunkAt(b, idx, size) ==
    IF idx <= 0 \/ size < 0 THEN FALSE
    ELSE IF size = 0 THEN SubSeq(b, idx + 1, Len(b)) = separator \o separator
    ELSE /\ Len(b) >= idx + 2 + size + 2
         /\ SubSeq(b, idx + 2 + size + 1, idx + 2 + size + 2) = separator
         /\ IsChunkedBody(SubSeq(b, idx + 2 + size + 3, Len(b)))
ChunkSized(b, idx) == ChunkAt(b, idx, IF idx <= 0 THEN -1 ELSE HexValue(SubSeq(b, 1, idx)))
IsChunkedBody(b) == ChunkSized(b, IndexSeparator(b))

\* A response on the wire, split as a client splits it: the status line, the
\* header block read into a map, and the bytes after the blank line.
BodyFramed(p, body) ==
    /\ p.done /\ p.err = "nil"
    /\ keyContentLength \in DOMAIN p.h =>
          Itoa(Len(body)) = p.h[keyContentLength]
    /\ (keyTransferEncoding \in DOMAIN p.h
          /\ tokenListContains(p.h[keyTransferEncoding], tokChunked)) =>
          IsChunkedBody(body)
HeadersFramed(afterStatus, p) ==
    BodyFramed(p, SubSeq(afterStatus, p.n + 1, Len(afterStatus)))
AfterStatusFramed(afterStatus) ==
    HeadersFramed(afterStatus, HeadersParse(NewHeaders, afterStatus))
ResponseFramed(wire, idx) ==
    idx > 0 /\ AfterStatusFramed(SubSeq(wire, idx + 3, Len(wire)))

\* C4: the body on the wire matches the framing the header block declares.
\* When a response has been written in full, a Content-Length header is
\* followed by exactly that many bytes and Transfer-Encoding: chunked by a
\* well-formed chunked body ending in 0\r\n\r\n.
BodyMatchesFraming ==
    (/\ pc = "closed"
     /\ ret.err = "nil"
     /\ \A i \in 1..Len(events) : events[i].ok) =>
        ResponseFramed(Wire, IndexSeparator(Wire))

\* C5, as the specification states it: once the request is in state Error,
\* every later parse call and RequestFromReader return the captured error.
CapturedErrorReturnedByParse ==
    req.state = RequestError =>
        /\ req.parseErr # "nil"
        /\ \A d \in ParseData \cup {<<>>, buf} : parse(req, d).err = req.parseErr
        /\ pc # "RequestFromReader" => ret = Return(<<>>, req.parseErr)

\* C5: a captured parse error.  A failed parse call pins the request in
\* state Error with the error stored, and RequestFromReader returns that
\* error and no request; a later parse call on the same request consumes
\* nothing, changes nothing and returns a nil error (not the captured one).
CapturedErrorPinned ==
    req.state = RequestError =>
        /\ req.parseErr # "nil"
        /\ \A d \in ParseData \cup {<<>>, buf} :
              parse(req, d) = ParseResult(req, 0, "nil")
        /\ pc # "RequestFromReader"
        /\ ret = Return(<<>>, req.parseErr)

\* C5 witness: a request with an unsupported method was refused; the error
\* is stored in the request and the connection has been answered.
CapturedErrorWitness ==
    /\ req.state = RequestError
    /\ req.parseErr = "ErrUnsupportedHTTPMethod"
    /\ pc = "closed"

\* C7: a request with a Transfer-Encoding header, whatever its value, is
\* rejected at the end of the headers: it never gets past the headers and
\* the handler is never called for it.
TransferEncodingRejected ==
    keyTransferEncoding \in DOMAIN req.Headers =>
        /\ req.state \in {RequestParsingHeaders, RequestError}
        /\ pc # "RequestFromReader" => ret.err # "nil"
        /\ \A i \in 1..Len(events) : events[i].call # "handler"

\* C8: body overrun is an error.  When the request declares Content-Length
\* N > 0 and more than N bytes were received after the header block,
\* RequestFromReader fails with ErrRequestBodyExceedsCL.
BodyOverrunIsError ==
    (/\ pc # "RequestFromReader"
     /\ req.state \in {RequestParsingBody, RequestDone}
     /\ hasBody(req.Headers).has
     /\ Len(req.Body) + Len(buf) > hasBody(req.Headers).want) =>
        ret = Return(<<>>, "ErrRequestBodyExceedsCL")

\* C9, as the specification states it: when the stream ends, the result
\* depends on the state alone.
EndOfStreamByState ==
    (pc # "RequestFromReader" /\ readErr = "io.EOF") =>
        CASE req.state = RequestDone  -> ret = Return(<<req>>, "nil")
          [] req.state = RequestError -> ret = Return(<<>>, req.parseErr)
          [] OTHER                    -> ret = Return(<<>>, "io.ErrUnexpectedEOF")

\* C9: end of stream in RequestFromReader.  When the Read that reports the
\* end of the stream has been handled: in state Done the request is
\* returned; with a parse error recorded that error is returned; in
\* another state the result is io.ErrUnexpectedEOF, unless that Read also
\* returned bytes that brought the unparsed buffer over maxStartLine while
\* the start line was still awaited, and then it is ErrMalformedRequestLine.
EndOfStreamHandling ==
    (pc # "RequestFromReader" /\ readErr = "io.EOF") =>
        CASE req.state = RequestDone  -> ret = Return(<<req>>, "nil")
          [] req.state = RequestError ->
                req.parseErr # "nil" /\ ret = Return(<<>>, req.parseErr)
          [] OTHER ->
                IF req.state = RequestInitialized /\ Len(buf) > maxStartLine
                THEN ret = Return(<<>>, "ErrMalformedRequestLine")
                ELSE ret = Return(<<>>, "io.ErrUnexpectedEOF")

\* C9 witness: Content-Length 3 and two body bytes, then the end of the
\* stream: io.ErrUnexpectedEOF.
EndOfStreamWitness ==
    /\ pc # "RequestFromReader"
    /\ readErr = "io.EOF"
    /\ req.state = RequestParsingBody
    /\ Len(req.Body) = 2
    /\ ret = Return(<<>>, "io.ErrUnexpectedEOF")

\* The octets of a field name (RFC 9110 token): letters, digits and
\* !#$%&'*+-.^_`|~
tokenOctets ==
    {<<65, 66, 67, 68, 69, 70, 71, 72, 73, 74, 75, 76, 77, 78, 79, 80, 81, 82, 83, 84, 85, 86, 87, 88, 89, 90, 97, 98, 99, 100, 101, 102, 103, 104, 105, 106, 107, 108, 109, 110, 111, 112, 113, 114, 115, 116, 117, 118, 119, 120, 121, 122, 48, 49, 50, 51, 52, 53, 54, 55, 56, 57, 33, 35, 36, 37, 38, 39, 42, 43, 45, 46, 94, 95, 96, 124, 126>>[i] :
        i \in 1..77}

\* The position (from 1) of the first colon of a line, 0 when it has none.
FirstColon(line) ==
    IF \E i \in 1..Len(line) : line[i] = 58
    THEN CHOOSE i \in 1..Len(line) : line[i] = 58 /\ \A j \in 1..(i - 1) : line[j] # 58
    ELSE 0

\* A header line (not the blank one) that must be refused: it begins with a
\* space or a tab, has no colon, has nothing before its first colon, or has
\* before it an octet that is no token octet (a space and a tab are none).
MalformedAt(line, c) ==
    \/ line[1] \in {32, 9}
    \/ c = 0
    \/ c = 1
    \/ \E i \in 1..(c - 1) : line[i] \notin tokenOctets
Malformed(line) == Len(line) > 0 /\ MalformedAt(line, FirstColon(line))

\* The field name of a well-formed line as written, and its value.
FieldName(line) == SubSeq(line, 1, FirstColon(line) - 1)
FieldValue(line) == Trim(SubSeq(line, FirstColon(line) + 1, Len(line)), {32, 9})

ToUpperByte(c) == IF c \in 97..122 THEN c - 32 ELSE c
ToUpper(s) == [i \in 1..Len(s) |-> ToUpperByte(s[i])]

\* The values of the lines named name (in any letter case), joined by ","
\* in the order of the lines.
RECURSIVE Joined(_, _)
JoinedWith(front, line, name) ==
    IF ToLower(FieldName(line)) # ToLower(name) THEN front
    ELSE IF front = <<>> THEN <<FieldValue(line)>>
    ELSE <<front[1] \o <<44>> \o FieldValue(line)>>
Joined(lines, name) ==
    IF Len(lines) = 0 THEN <<>>
    ELSE JoinedWith(Joined(SubSeq(lines, 1, Len(lines) - 1), name), lines[Len(lines)], name)

\* The offset in the block at which line i ends, its CRLF included.
RECURSIVE EndOfLine(_, _)
EndOfLine(lines, i) ==
    IF i = 0 THEN 0 ELSE EndOfLine(lines, i - 1) + Len(lines[i]) + 2

\* C6: the header container.  Keys are stored lower-cased, one entry for a
\* name.  When a block of well-formed lines (none over 8 KiB) with its blank line has been
\* parsed, Parse has reported done, the calls have consumed the whole block
\* (one call on the whole block returns n = its length, blank line
\* included), the map holds the names of the lines and no other, and Get
\* of a name in any letter case is the trimmed values of its lines joined
\* by "," in the order of arrival.
HeaderContainer ==
    /\ \A k \in DOMAIN ht.h : k = ToLower(k)
    /\ (/\ ht.calls > 0
        /\ ht.term
        /\ ht.avail = Len(HeaderData)
        /\ \A i \in 1..Len(ht.lines) :
              ~Malformed(ht.lines[i]) /\ Len(ht.lines[i]) <= 8 * 1024) =>
          /\ ht.done /\ ht.err = "nil"
          /\ ht.off = Len(HeaderData)
          /\ ht.calls = 1 => ht.n = Len(HeaderData)
          /\ DOMAIN ht.h = {ToLower(FieldName(ht.lines[i])) : i \in 1..Len(ht.lines)}
          /\ \A i \in 1..Len(ht.lines) :
               \A name \in {FieldName(ht.lines[i]), ToLower(FieldName(ht.lines[i])),
                            ToUpper(FieldName(ht.lines[i]))} :
                  <<Get(ht.h, name)>> = Joined(ht.lines, name)

\* C6 witness: "X: a" and "x:b  " were parsed with the blank line, in more
\* than one call, and Get("X") is "a,b".
HeaderContainerWitness ==
    /\ ht.done
    /\ ht.calls > 1
    /\ ht.lines = <<<<88, 58, 32, 97>>, <<120, 58, 98, 32, 32>>>>
    /\ Get(ht.h, <<88>>) = <<97, 44, 98>>

\* C10: malformed header lines.  Once the first malformed line of a block
\* has arrived with its CRLF (no line up to it being over 8 KiB), Parse has returned ErrMalformedHeaderLine;
\* whenever Parse returns an error it returns n = 0 and done = false.
MalformedRejected ==
    /\ ht.err # "nil" => ht.n = 0 /\ ~ht.done
    /\ \A i \in 1..Len(ht.lines) :
         (/\ ht.calls > 0
          /\ Malformed(ht.lines[i])
          /\ \A j \in 1..(i - 1) : ~Malformed(ht.lines[j])
          /\ \A j \in 1..i : Len(ht.lines[j]) <= 8 * 1024
          /\ ht.avail >= EndOfLine(ht.lines, i)) =>
            /\ ht.err = "ErrMalformedHeaderLine"
            /\ ht.n = 0
            /\ ~ht.done

\* C10 witness: after a well-formed line, a line whose name holds an octet
\* outside the token set ("X@: a") was refused.
MalformedRejectedWitness ==
    /\ Len(ht.lines) = 2
    /\ ~Malformed(ht.lines[1])
    /\ ht.lines[2] = <<88, 64, 58, 32, 97>>
    /\ ht.calls > 1
    /\ ht.err = "ErrMalformedHeaderLine"
    /\ DOMAIN ht.h # {}

\* The first line of the block that has not arrived whole (Len + 1 when all
\* have), given that avail bytes of the block have arrived.
FirstPartial(lines, avail) ==
    CHOOSE i \in 1..(Len(lines) + 1) :
        /\ i <= Len(lines) => avail < EndOfLine(lines, i)
        /\ \A j \in 1..(i - 1) : avail >= EndOfLine(lines, j)

\* The first line over 8 KiB among those arrived whole, 0 when none is.
FirstOverCap(lines, whole) ==
    IF \E i \in 1..whole : Len(lines[i]) > 8 * 1024
    THEN CHOOSE i \in 1..whole :
            Len(lines[i]) > 8 * 1024 /\ \A j \in 1..(i - 1) : Len(lines[j]) <= 8 * 1024
    ELSE 0

\* Parse has to answer "too long": a line not preceded by a malformed one is
\* over 8 KiB and has arrived whole, or what has arrived of the line after
\* the whole ones (all fine) is over 8 KiB and has no CRLF yet.
TooLongAt(lines, avail, part, over) ==
    IF over > 0 THEN \A j \in 1..(over - 1) : ~Malformed(lines[j])
    ELSE /\ \A j \in 1..(part - 1) : ~Malformed(lines[j])
         /\ avail - EndOfLine(lines, part - 1) > 8 * 1024
TooLongExpected(lines, avail, part) ==
    TooLongAt(lines, avail, part, FirstOverCap(lines, part - 1))

\* C11: the cap on a header line.  Headers.Parse returns
\* ErrHeaderLineTooLong exactly when a CRLF-terminated line is longer than
\* 8 KiB or the unterminated rest of the buffer is longer than 8 KiB (and no
\* malformed line comes before); a line of at most 8 KiB that has arrived
\* with its CRLF is never refused as too long.
HeaderLineCap ==
    ht.calls > 0 =>
        (ht.err = "ErrHeaderLineTooLong"
            <=> TooLongExpected(ht.lines, ht.avail, FirstPartial(ht.lines, ht.avail)))

\* C11 witness: after "X: a", consumed by a first call, a line of 8 KiB + 1
\* octets arrived with its CRLF and was refused.
HeaderLineCapWitness ==
    /\ ht.lines = <<<<88, 58, 32, 97>>, overCapLine>>
    /\ ht.calls > 1
    /\ ht.off = 6
    /\ ht.avail >= EndOfLine(ht.lines, 2)
    /\ ht.err = "ErrHeaderLineTooLong"

(***************************************************************************)
(* One call of Request.parse on a new Request, with one start line.        *)
(***************************************************************************)

\* The tokens start lines are made of, and what separates them.
MethodTokens ==
    { <<71, 69, 84>>, <<72, 69, 65, 68>>, <<80, 79, 83, 84>>, <<80, 85, 84>>, <<68, 69, 76, 69, 84, 69>>, <<67, 79, 78, 78, 69, 67, 84>>, <<79, 80, 84, 73, 79, 78, 83>>, <<84, 82, 65, 67, 69>>,
      <<80, 65, 84, 67, 72>>, <<103, 101, 116>>, <<66, 82, 69, 87>>, <<71, 69, 84, 83>> }
TargetTokens == { <<47, 120>>, <<42>> }
VersionTokens == { <<72, 84, 84, 80, 47, 49, 46, 49>>, <<72, 84, 84, 80, 47, 49, 46, 48>>, <<72, 84, 84, 80, 47, 50>>, <<104, 116, 116, 112, 47, 49, 46, 49>>, <<72, 84, 84, 80, 47, 49, 46, 49, 120>> }
\* Runs of whitespace: SP, HT, two SP, U+00A0.
Gaps == { <<32>>, <<9>>, <<32, 32>>, <<194, 160>> }
Leads == { <<>>, <<32>> }

\* A start line of three tokens, with its CRLF.
Line3(lead, m, g1, t, g2, v) == lead \o m \o g1 \o t \o g2 \o v \o <<13, 10>>

\* Start lines of 0, 1, 2, 4 and 5 tokens; U+00A0 and U+0085 are whitespace,
\* an octet 0xA0 alone is not.
WrongCountLines ==
    { <<71, 69, 84, 32, 47, 97, 194, 160, 98, 32, 72, 84, 84, 80, 47, 49, 46, 49, 13, 10>>, <<194, 133, 13, 10>>,
      <<71, 69, 84, 160, 47, 32, 72, 84, 84, 80, 47, 49, 46, 49, 13, 10>>,
      <<13, 10>>, <<32, 13, 10>>, <<71, 69, 84, 13, 10>>, <<71, 69, 84, 32, 47, 13, 10>>, <<71, 69, 84, 32, 72, 84, 84, 80, 47, 49, 46, 49, 13, 10>>,
      <<71, 69, 84, 32, 47, 32, 72, 84, 84, 80, 47, 49, 46, 49, 32, 120, 13, 10>>, <<71, 69, 84, 32, 47, 97, 32, 98, 32, 72, 84, 84, 80, 47, 49, 46, 49, 13, 10>>, <<71, 69, 84, 32, 47, 32, 97, 32, 98, 32, 72, 84, 84, 80, 47, 49, 46, 49, 13, 10>> }

StartLines ==
    { Line3(lead, m, g1, t, g2, v) :
        lead \in Leads, m \in MethodTokens, g1 \in Gaps, t \in TargetTokens,
        g2 \in Gaps, v \in VersionTokens }
      \cup WrongCountLines

RequestLineCall ==
    /\ pt.calls = 0
    /\ \E data \in StartLines : Parsed(data, parse(pt.r, data))
    /\ UNCHANGED <<stream, pos, readErr, buf, req, ret, pc, writer, events, log, ht, wt, sv>>

NextRequestLine == RequestLineCall

SpecRequestLine == InitParse /\ [][NextRequestLine]_vars

\* parse and ParseRequestLine refused the line pt.data with err.
LineRefused(rl, err) ==
    /\ rl = [rl |-> <<>>, n |-> 0, err |-> err]
    /\ pt.err = err /\ pt.n = 0
    /\ pt.r = [newRequest EXCEPT !.state = RequestError, !.parseErr = err]

\* What the start line made of m, t and v has to give.
LineOutcome(rl, m, t, v) ==
    IF m \notin { <<71, 69, 84>>, <<72, 69, 65, 68>>, <<80, 79, 83, 84>>, <<80, 85, 84>>, <<68, 69, 76, 69, 84, 69>>, <<67, 79, 78, 78, 69, 67, 84>>,
                  <<79, 80, 84, 73, 79, 78, 83>>, <<84, 82, 65, 67, 69>>, <<80, 65, 84, 67, 72>> }
    THEN LineRefused(rl, "ErrUnsupportedHTTPMethod")
    ELSE IF v # <<72, 84, 84, 80, 47, 49, 46, 49>>
    THEN LineRefused(rl, "ErrUnsupportedHTTPVersion")
    ELSE /\ rl.err = "nil"
         /\ rl.n = Len(pt.data)
         /\ rl.rl = <<[Method |-> m, RequestTarget |-> t, HTTPVersion |-> <<49, 46, 49>>]>>
         /\ pt.err = "nil"
         /\ pt.n = Len(pt.data)
         /\ pt.r = [newRequest EXCEPT !.state = RequestParsingHeaders, !.RequestLine = rl.rl]

LineChecked(rl) ==
    /\ pt.data \in WrongCountLines => LineRefused(rl, "ErrMalformedRequestLine")
    /\ \A lead \in Leads, m \in MethodTokens, g1 \in Gaps, t \in TargetTokens,
          g2 \in Gaps, v \in VersionTokens :
            pt.data = Line3(lead, m, g1, t, g2, v) => LineOutcome(rl, m, t, v)

\* C12: the start line.  A CRLF-terminated line is accepted exactly when it
\* is three tokens separated by runs of whitespace, the first one of the
\* nine methods and the third "HTTP/1.1"; then the version stored is "1.1",
\* the bytes consumed are the line with its CRLF and the request is in
\* ParsingHeaders.  Another token count is ErrMalformedRequestLine, an
\* unknown method ErrUnsupportedHTTPMethod, another version
\* ErrUnsupportedHTTPVersion, and the request is in Error.
StartLineAccepted == pt.calls = 1 => LineChecked(ParseRequestLine(pt.data))

\* C12 witness: "PATCH\t* HTTP/1.1" was accepted.
StartLineWitness ==
    /\ pt.calls = 1
    /\ pt.data = <<80, 65, 84, 67, 72, 9, 42, 32, 32, 72, 84, 84, 80, 47, 49, 46, 49, 13, 10>>
    /\ pt.r.state = RequestParsingHeaders
    /\ pt.r.RequestLine[1].Method = <<80, 65, 84, 67, 72>>
    /\ pt.n = 19

(***************************************************************************)
(* A Writer: direct calls of its methods, and the writes of Server.handle  *)
(* after a handler of any kind has filled the Writer.                      *)
(***************************************************************************)

\* Values of Transfer-Encoding a handler may set; two of them with runes
\* above U+007F: "chun" U+212A "ed" (KELVIN SIGN, whose lower case is k) and
\* U+00A0 "chunked".
TransferEncodings ==
    { <<99, 104, 117, 110, 226, 132, 170, 101, 100>>, <<194, 160, 99, 104, 117, 110, 107, 101, 100>>,
      <<99, 104, 117, 110, 107, 101, 100>>, <<67, 104, 117, 110, 107, 101, 100>>, <<67, 72, 85, 78, 75, 69, 68>>, <<103, 122, 105, 112, 44, 32, 99, 104, 117, 110, 107, 101, 100>>, <<103, 122, 105, 112, 44, 99, 104, 117, 110, 107, 101, 100, 32>>,
      <<99, 104, 117, 110, 107, 101, 100, 44, 103, 122, 105, 112>>, <<103, 122, 105, 112>>, <<120, 99, 104, 117, 110, 107, 101, 100>>, <<99, 104, 117, 110, 107, 101, 100, 59, 113, 61, 49>>, <<>> }

\* The Headers of a Writer: none, a content type, a Transfer-Encoding alone
\* or with a Content-Length or with other headers.
WriterHeaderSets ==
    { NewHeaders,
      Set(NewHeaders, <<99, 111, 110, 116, 101, 110, 116, 45, 116, 121, 112, 101>>, <<116, 101, 120, 116, 47, 112, 108, 97, 105, 110>>),
      Set(NewHeaders, <<99, 111, 110, 116, 101, 110, 116, 45, 116, 121, 112, 101>>, <<116, 101, 120, 116, 47, 104, 116, 109, 108>>),
      Set(Set(NewHeaders, <<88, 45, 65>>, <<49>>), <<101, 116, 97, 103>>, <<119>>) }
      \cup { Set(NewHeaders, <<84, 114, 97, 110, 115, 102, 101, 114, 45, 69, 110, 99, 111, 100, 105, 110, 103>>, te) : te \in TransferEncodings }
      \cup { Set(Set(NewHeaders, <<84, 114, 97, 110, 115, 102, 101, 114, 45, 69, 110, 99, 111, 100, 105, 110, 103>>, te), <<99, 111, 110, 116, 101, 110, 116, 45, 108, 101, 110, 103, 116, 104>>, <<57, 57>>) :
                te \in {<<99, 104, 117, 110, 107, 101, 100>>, <<103, 122, 105, 112>>} }

\* The headers passed to WriteHeaders (when not nil).
PassedHeaderSets ==
    { NewHeaders, GetDefaultHeaders(0), GetDefaultHeaders(2),
      Set(Set(NewHeaders, <<116, 114, 97, 110, 115, 102, 101, 114, 45, 101, 110, 99, 111, 100, 105, 110, 103>>, <<99, 104, 117, 110, 107, 101, 100>>), <<99, 111, 110, 116, 101, 110, 116, 45, 108, 101, 110, 103, 116, 104>>, <<53>>),
      Set(NewHeaders, <<99, 111, 110, 110, 101, 99, 116, 105, 111, 110>>, <<99, 108, 111, 115, 101>>) }

\* The bodies passed to WriteChunkedBody: of 0, 1, 5, 1023, 1024, 1025, 2048
\* and 2500 octets, octet i being a letter chosen by i.
ChunkedBodyLengths == {0, 1, 5, chunkSize - 1, chunkSize, chunkSize + 1, 2 * chunkSize, 2500}
BodyOfLength(n) == [i \in 1..n |-> 97 + (i % 26)]

\* Most calls of WriteChunkedBody on one Writer.
MaxChunkCalls == 2

\* The Writer after a call op that had the writes ws to make: all made
\* (k = Len(ws)), or the first k made and the next failed having written m
\* bytes.
Written(ws, k, m) ==
    wt.writes \o SubSeq(ws, 1, k)
        \o (IF k < Len(ws) /\ m > 0 THEN <<SubSeq(ws[k + 1], 1, m)>> ELSE <<>>)
WriteErr(ws, k) == IF k < Len(ws) THEN "write error" ELSE "nil"

WriteHeadersDone(wh, hnil, h, ws, k) ==
    wt' = [op |-> "WriteHeaders", wh |-> wh, h |-> h, hnil |-> hnil, p |-> <<>>,
           prior |-> Len(wt.writes), writes |-> Written(ws, k, 0), n |-> 0,
           err |-> WriteErr(ws, k), calls |-> wt.calls + 1]
WriteHeadersWith(wh, hnil, h, ws) ==
    \E k \in 0..Len(ws) : WriteHeadersDone(wh, hnil, h, ws, k)

\* w.WriteHeaders(h) on a new Writer whose Headers are wh.
WriteHeadersCall ==
    /\ wt.op = "none"
    /\ \E wh \in WriterHeaderSets, hnil \in BOOLEAN, h \in PassedHeaderSets :
         /\ hnil => h = NewHeaders
         /\ WriteHeadersWith(wh, hnil, h, WriteHeadersWrites(wh, hnil, h))
    /\ UNCHANGED <<stream, pos, readErr, buf, req, ret, pc, writer, events, log, pt, ht, sv>>

WriteChunkedBodyDoneWith(p, ws, k, m) ==
    wt' = [wt EXCEPT !.op = "WriteChunkedBody", !.p = p, !.prior = Len(wt.writes),
                     !.writes = Written(ws, k, m), !.n = ChunkedTotal(ws, k, m),
                     !.err = WriteErr(ws, k), !.calls = @ + 1]
WriteChunkedBodyWith(p, ws) ==
    \E k \in 0..Len(ws) :
        \E m \in (IF k < Len(ws) THEN {0, Len(ws[k + 1]) \div 2} ELSE {0}) :
            WriteChunkedBodyDoneWith(p, ws, k, m)

\* w.WriteChunkedBody(p)
WriteChunkedBodyCall ==
    /\ wt.op \in {"none", "WriteChunkedBody"}
    /\ wt.err = "nil"
    /\ wt.calls < MaxChunkCalls
    /\ \E len \in ChunkedBodyLengths :
         WriteChunkedBodyWith(BodyOfLength(len), ChunkedWrites(BodyOfLength(len)))
    /\ UNCHANGED <<stream, pos, readErr, buf, req, ret, pc, writer, events, log, pt, ht, sv>>

TerminatorWritten(op, ok) ==
    wt' = [wt EXCEPT !.op = op, !.p = <<>>, !.prior = Len(wt.writes),
                     !.writes = IF ok THEN Append(@, chunkedTerminator) ELSE @,
                     !.n = IF ok THEN Len(chunkedTerminator) ELSE 0,
                     !.err = IF ok THEN "nil" ELSE "write error",
                     !.calls = @ + 1]

\* w.Close()
WriterCloseCall ==
    /\ wt.op \in {"none", "WriteChunkedBody"}
    /\ wt.err = "nil"
    /\ \E ok \in BOOLEAN : TerminatorWritten("Close", ok)
    /\ UNCHANGED <<stream, pos, readErr, buf, req, ret, pc, writer, events, log, pt, ht, sv>>

\* w.WriteChunkedBodyDone()
WriteChunkedBodyDoneCall ==
    /\ wt.op \in {"none", "WriteChunkedBody"}
    /\ wt.err = "nil"
    /\ \E ok \in BOOLEAN : TerminatorWritten("WriteChunkedBodyDone", ok)
    /\ UNCHANGED <<stream, pos, readErr, buf, req, ret, pc, writer, events, log, pt, ht, sv>>

\* The Writers a handler may leave behind.
HandlerWriters ==
    [Status : {0, OK, BAD_REQUEST, INTERNAL_SERVER_ERROR},
     Headers : WriterHeaderSets,
     Body : {<<>>, <<79, 75>>, <<104, 101, 108, 108, 111>>}]

\* Server.handle after RequestFromReader returned the request of input in
\* and the handler returned, leaving the Writer w.
handledInit(in, w) ==
    /\ stream = in
    /\ pos = Len(in.bytes)
    /\ readErr = "nil"
    /\ buf = <<>>
    /\ ret = RequestFromReaderWhole(in)
    /\ req = RequestFromReaderWhole(in).req[1]
    /\ pc = "WriteStatusLine"
    /\ writer = w
    /\ events = <<Event("handler", <<>>, TRUE)>>
    /\ log = <<>>

\* Either Server.handle drives a Writer (wt.op tells so and no direct call is
\* made), or the Writer is new and its methods are called directly.
InitWriter ==
    /\ \/ /\ \E w \in HandlerWriters :
               handledInit([bytes |-> <<71, 69, 84, 32, 47, 32, 72, 84, 84, 80, 47, 49, 46, 49, 13, 10, 13, 10>>,
                            ending |-> "io.EOF", sizes |-> {tmpLen}], w)
          /\ wt = [wtInit EXCEPT !.op = "Server.handle"]
       \/ /\ connInit([bytes |-> <<>>, ending |-> "io.EOF", sizes |-> {tmpLen}])
          /\ wt = wtInit
    /\ pt = ptInit
    /\ ht = htInit(<<>>, FALSE)
    /\ sv = svInit

NextWriter ==
    \/ WriteStatusLine
    \/ WriteHeaders
    \/ WriteBody
    \/ WriteHeadersCall
    \/ WriteChunkedBodyCall
    \/ WriterCloseCall
    \/ WriteChunkedBodyDoneCall

SpecWriter == InitWriter /\ [][NextWriter]_vars

\* s is runes of whitespace and nothing else.
Blank(s) == \A k \in 1..Len(Runes(s, 1)) : Runes(s, 1)[k].r \in unicodeSpace

\* tok is one of the comma-separated pieces of v, whitespace around it aside.
IsTokenOf(v, tok) ==
    \E a \in 1..Len(v) :
        /\ a + Len(tok) - 1 <= Len(v)
        /\ SubSeq(v, a, a + Len(tok) - 1) = tok
        /\ \E c \in 0..(a - 1) :
             /\ c = 0 \/ v[c] = 44
             /\ \A j \in (c + 1)..(a - 1) : v[j] # 44
             /\ Blank(SubSeq(v, c + 1, a - 1))
        /\ \E c \in (a + Len(tok))..(Len(v) + 1) :
             /\ c = Len(v) + 1 \/ v[c] = 44
             /\ \A j \in (a + Len(tok))..(c - 1) : v[j] # 44
             /\ Blank(SubSeq(v, a + Len(tok), c - 1))

\* The header block holds a line that starts with prefix.
HasLine(block, prefix) ==
    \E i \in 1..Len(block) :
        /\ i = 1 \/ (i > 2 /\ SubSeq(block, i - 2, i - 1) = <<13, 10>>)
        /\ i + Len(prefix) - 1 <= Len(block)
        /\ SubSeq(block, i, i + Len(prefix) - 1) = prefix

\* The effective header set of WriteHeaders(h) on a Writer with Headers wh:
\* the headers of h with those of wh laid over them; none when h is nil.
EffHas(wh, h, hnil, k) == ~hnil /\ (k \in DOMAIN wh \/ k \in DOMAIN h)
EffVal(wh, h, k) ==
    IF k \in DOMAIN wh THEN wh[k] ELSE IF k \in DOMAIN h THEN h[k] ELSE <<>>

\* Content-Length is in the block exactly when the effective set has it and
\* chunked is FALSE.
ContentLengthRule(block, hasCL, chunked) ==
    HasLine(block, <<67, 111, 110, 116, 101, 110, 116, 45, 76, 101, 110, 103, 116, 104, 58, 32>>) <=> (hasCL /\ ~chunked)

\* The header block Server.handle has written.
RECURSIVE HeaderBlockOf(_)
HeaderBlockOf(es) ==
    IF Len(es) = 0 THEN <<>>
    ELSE HeaderBlockOf(SubSeq(es, 1, Len(es) - 1))
           \o (IF es[Len(es)].call = "WriteHeaders" THEN es[Len(es)].data ELSE <<>>)

AllWritten(ws) == Concat(ws, Len(ws))

\* C13, as the specification states it: Content-Length is dropped exactly
\* when a piece of the effective Transfer-Encoding value, trimmed, equals
\* "chunked" in that letter case.
ContentLengthDroppedCaseSensitive ==
    /\ (wt.op = "WriteHeaders" /\ wt.err = "nil") =>
          ContentLengthRule(AllWritten(wt.writes),
                            EffHas(wt.wh, wt.h, wt.hnil, <<99, 111, 110, 116, 101, 110, 116, 45, 108, 101, 110, 103, 116, 104>>),
                            IsTokenOf(EffVal(wt.wh, wt.h, <<116, 114, 97, 110, 115, 102, 101, 114, 45, 101, 110, 99, 111, 100, 105, 110, 103>>), <<99, 104, 117, 110, 107, 101, 100>>))
    /\ pc = "WriteBody" =>
          ContentLengthRule(HeaderBlockOf(events), TRUE,
                            IsTokenOf(EffVal(writer.Headers, NewHeaders, <<116, 114, 97, 110, 115, 102, 101, 114, 45, 101, 110, 99, 111, 100, 105, 110, 103>>),
                                      <<99, 104, 117, 110, 107, 101, 100>>))

\* C13: Content-Length and chunked.  WriteHeaders leaves Content-Length out
\* of the block it writes exactly when a piece of the effective
\* Transfer-Encoding value, split at commas and trimmed, is "chunked" in any
\* letter case (the value is lower-cased before the pieces are compared);
\* otherwise the Content-Length of the effective set is written.
ContentLengthDropped ==
    /\ (wt.op = "WriteHeaders" /\ wt.err = "nil") =>
          ContentLengthRule(AllWritten(wt.writes),
                            EffHas(wt.wh, wt.h, wt.hnil, <<99, 111, 110, 116, 101, 110, 116, 45, 108, 101, 110, 103, 116, 104>>),
                            IsTokenOf(ToLower(EffVal(wt.wh, wt.h, <<116, 114, 97, 110, 115, 102, 101, 114, 45, 101, 110, 99, 111, 100, 105, 110, 103>>)),
                                      <<99, 104, 117, 110, 107, 101, 100>>))
    /\ pc = "WriteBody" =>
          ContentLengthRule(HeaderBlockOf(events), TRUE,
                            IsTokenOf(ToLower(EffVal(writer.Headers, NewHeaders,
                                                     <<116, 114, 97, 110, 115, 102, 101, 114, 45, 101, 110, 99, 111, 100, 105, 110, 103>>)),
                                      <<99, 104, 117, 110, 107, 101, 100>>))

\* C13 witness: Transfer-Encoding "Chunked" on the Writer, the default
\* headers for a body of 2 passed: no Content-Length in the block.
ContentLengthDroppedWitness ==
    /\ wt.op = "WriteHeaders"
    /\ wt.err = "nil"
    /\ wt.h = GetDefaultHeaders(2)
    /\ AllWritten(wt.writes)
         = <<67, 111, 110, 110, 101, 99, 116, 105, 111, 110, 58, 32, 99, 108, 111, 115, 101, 13, 10, 67, 111, 110, 116, 101, 110, 116, 45, 84, 121, 112, 101, 58, 32, 116, 101, 120, 116, 47, 112, 108, 97, 105, 110, 13, 10, 84, 114, 97, 110, 115, 102, 101, 114, 45, 69, 110, 99, 111, 100, 105, 110, 103, 58, 32, 67, 104, 117, 110, 107, 101, 100, 13, 10, 13, 10>>

\* a comes before b in the order of Go strings (octet by octet, a proper
\* prefix first).
Before(a, b) ==
    \E i \in 1..(Len(b)) :
        /\ \A j \in 1..(i - 1) : j <= Len(a) /\ a[j] = b[j]
        /\ i > Len(a) \/ a[i] < b[i]

\* The written form of the field names in use.
CanonicalName(k) ==
    CASE k = <<99, 111, 110, 116, 101, 110, 116, 45, 108, 101, 110, 103, 116, 104>> -> <<67, 111, 110, 116, 101, 110, 116, 45, 76, 101, 110, 103, 116, 104>>
      [] k = <<99, 111, 110, 110, 101, 99, 116, 105, 111, 110>> -> <<67, 111, 110, 110, 101, 99, 116, 105, 111, 110>>
      [] k = <<99, 111, 110, 116, 101, 110, 116, 45, 116, 121, 112, 101>> -> <<67, 111, 110, 116, 101, 110, 116, 45, 84, 121, 112, 101>>
      [] k = <<116, 114, 97, 110, 115, 102, 101, 114, 45, 101, 110, 99, 111, 100, 105, 110, 103>> -> <<84, 114, 97, 110, 115, 102, 101, 114, 45, 69, 110, 99, 111, 100, 105, 110, 103>>
      [] k = <<120, 45, 97>> -> <<88, 45, 65>>
      [] k = <<101, 116, 97, 103>> -> <<69, 116, 97, 103>>

\* The block of the headers named keys, with the values val: one line
\* "Name: value\r\n" for a name, names ascending, then one "\r\n".
RECURSIVE BlockOfHeaders(_, _)
BlockFrom(first, keys, val) ==
    CanonicalName(first) \o <<58, 32>> \o val[first] \o <<13, 10>>
        \o BlockOfHeaders(keys \ {first}, val)
BlockOfHeaders(keys, val) ==
    IF keys = {} THEN <<13, 10>>
    ELSE BlockFrom(CHOOSE k \in keys : \A y \in keys \ {k} : Before(k, y), keys, val)

\* The names WriteHeaders(h) has to write on a Writer with Headers wh: those
\* of the effective set, Content-Length aside when it is dropped for chunked.
NamesToWrite(wh, h, hnil) ==
    IF hnil THEN {}
    ELSE {k \in DOMAIN wh \cup DOMAIN h :
            ~(k = <<99, 111, 110, 116, 101, 110, 116, 45, 108, 101, 110, 103, 116, 104>>
              /\ IsTokenOf(ToLower(EffVal(wh, h, <<116, 114, 97, 110, 115, 102, 101, 114, 45, 101, 110, 99, 111, 100, 105, 110, 103>>)), <<99, 104, 117, 110, 107, 101, 100>>))}

ExpectedBlock(wh, h, hnil) ==
    BlockOfHeaders(NamesToWrite(wh, h, hnil),
                   [k \in NamesToWrite(wh, h, hnil) |-> EffVal(wh, h, k)])

\* The default headers for a body of n octets, spelled out.
DefaultsFor(n) ==
    (<<99, 111, 110, 116, 101, 110, 116, 45, 108, 101, 110, 103, 116, 104>> :> Itoa(n)) @@ (<<99, 111, 110, 110, 101, 99, 116, 105, 111, 110>> :> <<99, 108, 111, 115, 101>>)
        @@ (<<99, 111, 110, 116, 101, 110, 116, 45, 116, 121, 112, 101>> :> <<116, 101, 120, 116, 47, 112, 108, 97, 105, 110>>)

\* C14: the header block.  WriteHeaders writes each header of the effective
\* set once, as "Canonical-Name: value\r\n", in ascending order of the
\* lower-cased names, then one "\r\n", also when there is no header (for a
\* nil h it writes that "\r\n" alone).  With status 200, the Writer's header
\* content-type: text/plain and the body "OK", what Server.handle writes is
\* "HTTP/1.1 200 OK\r\nConnection: close\r\nContent-Length: 2\r\n
\* Content-Type: text/plain\r\n\r\nOK".
HeaderSerialization ==
    /\ (wt.op = "WriteHeaders" /\ wt.err = "nil") =>
          AllWritten(wt.writes) = ExpectedBlock(wt.wh, wt.h, wt.hnil)
    /\ pc = "WriteBody" =>
          HeaderBlockOf(events)
            = ExpectedBlock(writer.Headers, DefaultsFor(Len(writer.Body)), FALSE)
    /\ (/\ pc = "closed"
        /\ \A i \in 1..Len(events) : events[i].ok
        /\ writer = [Status |-> 200, Headers |-> (<<99, 111, 110, 116, 101, 110, 116, 45, 116, 121, 112, 101>> :> <<116, 101, 120, 116, 47, 112, 108, 97, 105, 110>>),
                     Body |-> <<79, 75>>]) =>
          Wire = <<72, 84, 84, 80, 47, 49, 46, 49, 32, 50, 48, 48, 32, 79, 75, 13, 10, 67, 111, 110, 110, 101, 99, 116, 105, 111, 110, 58, 32, 99, 108, 111, 115, 101, 13, 10, 67, 111, 110, 116, 101, 110, 116, 45, 76, 101, 110, 103, 116, 104, 58, 32, 50, 13, 10, 67, 111, 110, 116, 101, 110, 116, 45, 84, 121, 112, 101, 58, 32, 116, 101, 120, 116, 47, 112, 108, 97, 105, 110, 13, 10, 13, 10, 79, 75>>

\* C14 witness: Server.handle has written the response of status 200 with
\* content-type: text/plain and the body "OK", and closed.
HeaderSerializationWitness ==
    /\ pc = "closed"
    /\ writer.Status = 200 /\ writer.Body = <<79, 75>>
    /\ writer.Headers = (<<99, 111, 110, 116, 101, 110, 116, 45, 116, 121, 112, 101>> :> <<116, 101, 120, 116, 47, 112, 108, 97, 105, 110>>)
    /\ Wire = <<72, 84, 84, 80, 47, 49, 46, 49, 32, 50, 48, 48, 32, 79, 75, 13, 10, 67, 111, 110, 110, 101, 99, 116, 105, 111, 110, 58, 32, 99, 108, 111, 115, 101, 13, 10, 67, 111, 110, 116, 101, 110, 116, 45, 76, 101, 110, 103, 116, 104, 58, 32, 50, 13, 10, 67, 111, 110, 116, 101, 110, 116, 45, 84, 121, 112, 101, 58, 32, 116, 101, 120, 116, 47, 112, 108, 97, 105, 110, 13, 10, 13, 10, 79, 75>>

\* A chunk-size line: lower-case hexadecimal digits with no leading zero,
\* then "\r\n"; its value, -1 when it is no such line.
SizeLineValue(w) ==
    IF /\ Len(w) >= 3
       /\ SubSeq(w, Len(w) - 1, Len(w)) = <<13, 10>>
       /\ w[1] # 48
       /\ \A i \in 1..(Len(w) - 2) : w[i] \in (48..57) \cup (97..102)
    THEN HexValue(SubSeq(w, 1, Len(w) - 2))
    ELSE -1

\* ws are the writes of the chunks of p, count of them, all of 1024 octets
\* but the last: for chunk i its size line, its bytes, "\r\n".
ChunksOf(ws, p, count) ==
    /\ count = (Len(p) + 1023) \div 1024
    /\ Len(ws) = 3 * count
    /\ \A i \in 1..count :
         /\ ws[3 * i - 1] = SubSeq(p, 1024 * (i - 1) + 1,
                                   IF i < count THEN 1024 * i ELSE Len(p))
         /\ i < count => Len(ws[3 * i - 1]) = 1024
         /\ Len(ws[3 * i - 1]) \in 1..1024
         /\ SizeLineValue(ws[3 * i - 2]) = Len(ws[3 * i - 1])
         /\ ws[3 * i] = <<13, 10>>
    /\ \A j \in 1..Len(ws) : ws[j] # <<48, 13, 10, 13, 10>>
    /\ Len(p) = 2500 =>
         /\ ws[1] = <<52, 48, 48, 13, 10>> /\ ws[4] = <<52, 48, 48, 13, 10>> /\ ws[7] = <<49, 99, 52, 13, 10>>
         /\ Len(ws[8]) = 452

\* C15: chunked bodies.  WriteChunkedBody(p) writes ceil(len(p)/1024)
\* chunks, each of 1024 octets but possibly the last (2500 -> 1024, 1024,
\* 452), each as "<hex-length>\r\n<bytes>\r\n", in the order of p, and
\* returns len(p); for an empty p it writes nothing.  It never writes
\* "0\r\n\r\n": Close and WriteChunkedBodyDone write it, after the chunks.
ChunkedBodyWritten ==
    /\ (wt.op = "WriteChunkedBody" /\ wt.err = "nil") =>
          /\ wt.n = Len(wt.p)
          /\ ChunksOf(SubSeq(wt.writes, wt.prior + 1, Len(wt.writes)), wt.p,
                      (Len(wt.writes) - wt.prior) \div 3)
    /\ (wt.op \in {"Close", "WriteChunkedBodyDone"} /\ wt.err = "nil") =>
          /\ Len(wt.writes) = wt.prior + 1
          /\ wt.writes[Len(wt.writes)] = <<48, 13, 10, 13, 10>>
          /\ \A j \in 1..wt.prior : wt.writes[j] # <<48, 13, 10, 13, 10>>

\* C15 witness: a body of 2500 octets went out as chunks of 1024, 1024 and
\* 452 octets, and Close wrote the terminator after them.
ChunkedBodyWitness ==
    /\ wt.op = "Close"
    /\ wt.err = "nil"
    /\ Len(wt.writes) = 10
    /\ wt.writes[1] = <<52, 48, 48, 13, 10>> /\ Len(wt.writes[2]) = 1024
    /\ wt.writes[4] = <<52, 48, 48, 13, 10>> /\ Len(wt.writes[5]) = 1024
    /\ wt.writes[7] = <<49, 99, 52, 13, 10>> /\ Len(wt.writes[8]) = 452
    /\ wt.writes[10] = <<48, 13, 10, 13, 10>>

(***************************************************************************)
(* Package server: Serve, listen and Close, with connections.              *)
(***************************************************************************)

\* A Swap that reads the flag and leaves it as it is.
SwapKeeps(flag) == [old |-> flag, new |-> flag]

\* s.closed.Swap(true): the old value, and the flag after it.
Swap(flag) == [old |-> flag, new |-> TRUE]

\* A loop that goes on after every error of Accept.
continueAlways(closedFlag, errClosed) == "Accept"

\* A loop that returns at the first error of Accept.
returnAlways(closedFlag, errClosed) == "returned"

\* listen, after Accept returned an error: return when the flag is set or
\* the error is net.ErrClosed, else continue.
afterAcceptError(closedFlag, errClosed) ==
    IF closedFlag \/ errClosed THEN "returned" ELSE "Accept"

\* The requests of the connections a Server gets.
ServerStreams ==
    { <<71, 69, 84, 32, 47, 32, 72, 84, 84, 80, 47, 49, 46, 49, 13, 10, 13, 10>>,
      <<71, 69, 84, 32, 47, 104, 116, 116, 112, 98, 105, 110, 47, 115, 116, 114, 101, 97, 109, 47, 50, 32, 72, 84, 84, 80, 47, 49, 46, 49, 13, 10, 13, 10>>,
      <<80, 79, 83, 84, 32, 47, 120, 32, 72, 84, 84, 80, 47, 49, 46, 49, 13, 10, 67, 111, 110, 116, 101, 110, 116, 45, 76, 101, 110, 103, 116, 104, 58, 32, 51, 13, 10, 13, 10, 97, 98>> }

\* Close, first statement: the Swap; a caller that finds the flag set
\* returns nil.
Swapped(c, sw) ==
    sv' = [sv EXCEPT !.closed = sw.new,
                     !.callers[c] = IF sw.old
                                    THEN [@ EXCEPT !.pc = "returned", !.old = TRUE,
                                                   !.ret = "nil"]
                                    ELSE [@ EXCEPT !.pc = "listener.Close", !.old = FALSE]]
CloseSwap ==
    /\ ~ProcessEnded
    /\ \E c \in 1..MaxClosers :
         /\ sv.callers[c].pc = "Close"
         /\ Swapped(c, Swap(sv.closed))
    /\ UNCHANGED <<stream, pos, readErr, buf, req, ret, pc, writer, events, log, pt, ht, wt>>

\* Close, second statement: return s.listener.Close().  Closing a closed
\* listener is an error.
CloseListener ==
    /\ ~ProcessEnded
    /\ \E c \in 1..MaxClosers :
         /\ sv.callers[c].pc = "listener.Close"
         /\ sv' = [sv EXCEPT !.listener = "closed",
                             !.closes = @ + 1,
                             !.pcAtClose = IF sv.closes = 0 THEN pc ELSE @,
                             !.callers[c] =
                                 [@ EXCEPT !.pc = "returned", !.touched = TRUE,
                                           !.ret = IF sv.listener = "open" THEN "nil"
                                                   ELSE "net.ErrClosed"]]
    /\ UNCHANGED <<stream, pos, readErr, buf, req, ret, pc, writer, events, log, pt, ht, wt>>

\* The connections Accept has returned.
Accepted == Cardinality({ i \in 1..Len(sv.accepts) : sv.accepts[i] = "conn" })

\* listen: conn, err := s.listener.Accept() returns a connection; the loop
\* is then before its go statement.
AcceptConn ==
    /\ ~ProcessEnded
    /\ sv.loop = "Accept"
    /\ sv.listener = "open"
    /\ Accepted < MaxConns
    /\ sv' = [sv EXCEPT !.loop = "go handle", !.accepts = Append(@, "conn")]
    /\ UNCHANGED <<stream, pos, readErr, buf, req, ret, pc, writer, events, log, pt, ht, wt>>

\* listen: go s.handle(conn) starts the task of the connection, whatever
\* Close has done since Accept returned, and the loop calls Accept again.
\* The first connection is the one followed step by step.
GoHandle ==
    /\ ~ProcessEnded
    /\ sv.loop = "go handle"
    /\ sv' = [sv EXCEPT !.loop = "Accept", !.spawned = @ + 1,
                        !.late = IF sv.listener = "closed" THEN @ + 1 ELSE @]
    /\ pc' = IF sv.spawned = 0 THEN "RequestFromReader" ELSE pc
    /\ UNCHANGED <<stream, pos, readErr, buf, req, ret, writer, events, log, pt, ht, wt>>

\* The errors of Accept after which the loop went on.
AcceptErrors == Cardinality({ i \in 1..Len(sv.accepts) : sv.accepts[i] = "error, continue" })

\* listen: the loop after an error of Accept, being then at next.
AcceptFailed(next) ==
    /\ next = "returned" \/ AcceptErrors < MaxAcceptErrors
    /\ sv' = [sv EXCEPT !.loop = next,
                        !.accepts = Append(@, IF next = "returned" THEN "error, return"
                                              ELSE "error, continue")]

\* listen: Accept returns an error: net.ErrClosed when the listener is
\* closed, another one (a transient one) when it is open.
AcceptError ==
    /\ ~ProcessEnded
    /\ sv.loop = "Accept"
    /\ AcceptFailed(afterAcceptError(sv.closed, sv.listener = "closed"))
    /\ UNCHANGED <<stream, pos, readErr, buf, req, ret, pc, writer, events, log, pt, ht, wt>>

\* handle, in the task of a connection other than the first: its handler
\* panics, which ends the program.
TaskPanic ==
    /\ ~ProcessEnded
    /\ sv.spawned > 1
    /\ sv' = [sv EXCEPT !.crashed = TRUE]
    /\ UNCHANGED <<stream, pos, readErr, buf, req, ret, pc, writer, events, log, pt, ht, wt>>

InitServer ==
    /\ \E b \in ServerStreams, e \in Endings :
         stream = [bytes |-> b, ending |-> e, sizes |-> {tmpLen}]
    /\ pos = 0
    /\ readErr = "nil"
    /\ buf = <<>>
    /\ req = newRequest
    /\ ret = Return(<<>>, "nil")
    /\ pc = "listener.Accept"
    /\ writer = NewWriter
    /\ events = <<>>
    /\ log = <<>>
    /\ pt = ptInit
    /\ ht = htInit(<<>>, FALSE)
    /\ wt = wtInit
    /\ sv = svInit

NextServer ==
    \/ CloseSwap
    \/ CloseListener
    \/ AcceptConn
    \/ GoHandle
    \/ AcceptError
    \/ TaskPanic
    \/ Read
    \/ ReadEnd
    \/ BadRequest
    \/ WriteBadRequest
    \/ CallHandler
    \/ HandlerWait
    \/ WriteStatusLine
    \/ WriteHeaders
    \/ WriteBody

SpecServer == InitServer /\ [][NextServer]_vars

(***************************************************************************)
(* C16: Server.Close under concurrency.                                    *)
(***************************************************************************)

\* The goroutines whose Swap found the flag not set.
FirstSwappers == { c \in 1..MaxClosers : sv.callers[c].pc # "Close" /\ ~sv.callers[c].old }

\* The goroutines that have returned from Close.
Returned == { c \in 1..MaxClosers : sv.callers[c].pc = "returned" }

\* C16: Server.Close is idempotent under concurrency: in every interleaving
\* of the Close calls the listener is closed at most once, and exactly once
\* when the first call to swap the flag has returned; every call other than
\* that one returns nil without calling listener.Close.
CloseIdempotent ==
    /\ sv.closes <= 1
    /\ Cardinality(FirstSwappers) <= 1
    /\ (sv.closed <=> \E c \in 1..MaxClosers : sv.callers[c].pc # "Close")
    /\ \A c \in Returned :
         IF c \in FirstSwappers
         THEN sv.callers[c].touched /\ sv.closes = 1 /\ sv.listener = "closed"
              /\ sv.callers[c].ret = "nil"
         ELSE ~sv.callers[c].touched /\ sv.callers[c].ret = "nil"
    /\ (sv.closes = 1 <=> FirstSwappers \cap Returned # {})
    /\ (Returned = 1..MaxClosers => sv.closes = 1)

\* Every goroutine has returned from Close, one of them before the first
\* swapper closed the listener.
CloseIdempotentWitness ==
    /\ MaxClosers >= 2
    /\ Returned = 1..MaxClosers
    /\ sv.closes = 1
    /\ \E c \in Returned : sv.callers[c].old /\ ~sv.callers[c].touched

(***************************************************************************)
(* C17: shutdown.  The Go scheduler runs every goroutine that can run, a   *)
(* Read of a connection returns (the peer sends, or ends the stream), an   *)
(* Accept on a closed listener returns net.ErrClosed, and a call of Close  *)
(* that has swapped the flag goes on to close the listener: weak fairness  *)
(* of the go statement of listen, of the Accept that fails on the closed   *)
(* listener, of the steps of handle and of the second statement of Close.  *)
(* Nothing makes a goroutine call Close, a client connect, or an Accept on *)
(* an open listener return.  No step follows the panic of a handler.       *)
(***************************************************************************)

\* The steps of handle.
Handle ==
    Read \/ ReadEnd \/ BadRequest \/ WriteBadRequest \/ CallHandler \/ HandlerWait \/ WriteStatusLine \/ WriteHeaders \/ WriteBody

\* The task of the connection has ended: handle has returned, or the
\* handler has panicked; conn.Close has run in both.
TaskEnded ==
    /\ pc \in {"closed", "panic"}
    /\ Len(events) > 0
    /\ events[Len(events)].call = "conn.Close"

\* The task of the connection is running.
TaskRunning == pc \notin {"listener.Accept", "closed", "panic"} /\ ~sv.crashed

\* Weak fairness of Handle.  A step of Handle is possible exactly while the
\* task is running (handle has a next statement until it returns or the
\* program ends), and each one changes the state, so ENABLED <<Handle>>_vars
\* is TaskRunning.
HandleFair == []<>(~TaskRunning) \/ []<><<Handle>>_vars

SpecServerLive ==
    /\ InitServer
    /\ [][NextServer]_vars
    /\ WF_vars(CloseListener)
    /\ WF_vars(sv.listener = "closed" /\ AcceptError)
    /\ WF_vars(GoHandle)
    /\ HandleFair

\* C17: after Close has closed the listener the accept loop eventually
\* returns, and from the closing on no connection task is started; no step
\* of Close changes anything of a running connection task, and a task that
\* has been started runs its steps to completion, handle returning with
\* the connection closed, whether the listener is closed meanwhile or not.
CooperativeShutdown ==
    /\ (sv.listener = "closed") ~> (sv.loop = "returned")
    /\ [][sv.listener = "closed" => sv'.spawned = sv.spawned]_vars
    /\ [][(sv'.closed # sv.closed \/ sv'.listener # sv.listener \/ sv'.callers # sv.callers)
            => UNCHANGED <<stream, pos, readErr, buf, req, ret, pc, writer, events, log>>]_vars
    /\ (pc # "listener.Accept") ~> (pc = "closed")
    /\ [][pc = "closed" => pc' = "closed"]_vars

\* The part of C17 on tasks: a task that has been started runs its steps to
\* completion.
TasksComplete == (pc # "listener.Accept") ~> (pc = "closed")

\* The part of C17 on the accept loop: it returns after the listener is
\* closed.
LoopReturns == (sv.listener = "closed") ~> (sv.loop = "returned")

\* What holds in place of C17.  After Close has closed the listener Accept
\* gives the loop no further connection, and the loop returns unless the
\* panic of a handler ends the program first; the one task it may still
\* start is that of a connection Accept had returned before the listener
\* was closed (the loop was before its go statement then).  No step of
\* Close changes anything of a running connection task, and a task that
\* has been started runs on until handle has returned or its handler
\* panicked, with the connection closed, unless the panic of the handler
\* of another task ends the program first.
CooperativeShutdownAccepted ==
    /\ (sv.listener = "closed") ~> (sv.loop = "returned" \/ ProcessEnded)
    /\ [][sv.listener = "closed" => Accepted' = Accepted]_vars
    /\ [][(sv.listener = "closed" /\ sv'.spawned # sv.spawned) =>
            /\ sv.loop = "go handle"
            /\ sv'.spawned = sv.spawned + 1
            /\ sv'.spawned = Accepted]_vars
    /\ [](sv.spawned <= Accepted /\ Accepted <= sv.spawned + 1 /\ sv.late <= 1)
    /\ [][(sv'.closed # sv.closed \/ sv'.listener # sv.listener \/ sv'.callers # sv.callers)
            => UNCHANGED <<stream, pos, readErr, buf, req, ret, pc, writer, events, log>>]_vars
    /\ TaskRunning ~> (TaskEnded \/ sv.crashed)
    /\ [][TaskEnded => TaskEnded' /\ sv.spawned > 0]_vars
    /\ [][ProcessEnded => UNCHANGED vars]_vars

\* The listener was closed while the first connection task was reading its
\* request and the loop was before the go statement of a second connection;
\* that task was started after the closing, the accept loop has returned
\* and the first task has written its response and closed the connection.
CooperativeShutdownWitness ==
    /\ sv.listener = "closed"
    /\ sv.pcAtClose = "RequestFromReader"
    /\ sv.late = 1
    /\ sv.spawned = 2
    /\ sv.loop = "returned"
    /\ pc = "closed"
    /\ Len(events) >= 5
    /\ events[1].call = "handler"
    /\ events[Len(events)].call = "conn.Close"
    /\ \A i \in 1..Len(events) : events[i].ok

(***************************************************************************)
(* C18: the order of the steps of one connection task.                     *)
(***************************************************************************)

\* The place of a call in Server.handle.
Rank(call) ==
    CASE call = "handler" -> 1
      [] call = "io.WriteString" -> 1
      [] call = "WriteStatusLine" -> 2
      [] call = "WriteHeaders" -> 3
      [] call = "WriteBody" -> 4
      [] call = "conn.Close" -> 5

\* How many of the first k events are calls of call.
CountOf(call, k) == Cardinality({ i \in 1..k : events[i].call = call })

\* The calls made so far are in the order of Server.handle.  The header
\* block is several writes; every other call is made once.  A step is made
\* only when the one before it is complete: the status line after the
\* handler has returned, the header block after the status line is written,
\* the body after the last write of the header block; the first failure is
\* followed by conn.Close and nothing else.
EventsOrdered ==
    /\ \A i, j \in 1..Len(events) :
         i < j => /\ Rank(events[i].call) <= Rank(events[j].call)
                  /\ Rank(events[i].call) = Rank(events[j].call)
                       => events[i].call = "WriteHeaders" /\ events[j].call = "WriteHeaders"
    /\ \A i \in 1..Len(events) :
         /\ (i = 1) = (Rank(events[i].call) = 1)
         /\ (i > 1 /\ events[i].call # "conn.Close")
               => /\ events[i - 1].ok
                  /\ Rank(events[i - 1].call) \in {Rank(events[i].call) - 1, 3}
         /\ (~events[i].ok /\ events[i].call # "io.WriteString")
               => i + 1 = Len(events) /\ events[i + 1].call = "conn.Close"
         /\ events[i].call = "WriteBody"
               => events[i - 1].data = separator
         /\ events[i].call = "conn.Close" => i = Len(events)

\* C18: within one connection task the request is parsed first, then the
\* handler is called, then the status line, the header block and the body
\* are written, then the connection is closed, in this order; the handler
\* is called at most once, and only with the request RequestFromReader
\* returned; once RequestFromReader has returned no byte is read from the
\* connection any more; and the task ends, on every path, with conn.Close
\* as its last call.
ConnectionOrdering ==
    /\ [](/\ EventsOrdered
          /\ CountOf("handler", Len(events)) <= 1
          /\ CountOf("conn.Close", Len(events)) <= 1
          /\ events # <<>> => pc \notin {"RequestFromReader", "listener.Accept"}
          /\ pc = "RequestFromReader" => ret = Return(<<>>, "nil")
          /\ CountOf("handler", Len(events)) = 1
                => ret.err = "nil" /\ Len(ret.req) = 1
          /\ pc \in {"closed", "panic"}
                <=> (events # <<>> /\ events[Len(events)].call = "conn.Close"))
    /\ [][/\ pc # "RequestFromReader"
               => pos' = pos /\ buf' = buf /\ req' = req /\ ret' = ret
          /\ Len(events') >= Len(events)
          /\ SubSeq(events', 1, Len(events)) = events]_vars

\* A response was written whole and the connection closed, with bytes of
\* the connection left unread.
ConnectionOrderingWitness ==
    /\ pc = "closed"
    /\ Len(events) >= 5
    /\ events[1].call = "handler"
    /\ events[Len(events) - 1].call = "WriteBody"
    /\ \A i \in 1..Len(events) : events[i].ok
    /\ Remaining > 0

(***************************************************************************)
(* C19: the body.                                                          *)
(***************************************************************************)

\* s is a decimal number of at most nine digits.
IsDecimal(s) == Len(s) \in 1..9 /\ \A i \in 1..Len(s) : s[i] \in 48..57

\* The Content-Length value of s.
RECURSIVE DecimalValue(_)
DecimalValue(s) ==
    IF Len(s) = 0 THEN 0
    ELSE 10 * DecimalValue(SubSeq(s, 1, Len(s) - 1)) + (s[Len(s)] - 48)

\* The length of the body the headers h announce, when they hold no
\* Transfer-Encoding and Content-Length is absent or a decimal number (0
\* when absent); -1 for all other headers.
Announced(h) ==
    IF keyTransferEncoding \in DOMAIN h THEN -1
    ELSE IF keyContentLength \notin DOMAIN h THEN 0
    ELSE IF IsDecimal(TrimSpace(h[keyContentLength]))
    THEN DecimalValue(TrimSpace(h[keyContentLength]))
    ELSE -1

\* The smaller of two numbers.
Least(a, b) == IF a <= b THEN a ELSE b

\* The call of parse(data) that read the blank line at the end of the headers
\* left r, having consumed n octets; want is the length announced.
AfterBlankLine(r, data, n, want) ==
    /\ want = 0 => r.state = 4 /\ r.Body = <<>>
    /\ want > 0 =>
         /\ r.state \in {3, 4}
         /\ Len(r.Body) <= n - 2
         /\ SubSeq(data, n - Len(r.Body) - 1, n - Len(r.Body)) = <<13, 10>>
         /\ Len(r.Body) = Least(want, Len(data) - (n - Len(r.Body)))
         /\ r.Body = SubSeq(data, n - Len(r.Body) + 1, n)
         /\ (r.state = 4) = (Len(r.Body) = want)

\* A call of parse(data) on prev, in state ParsingBody, left r and returned n.
InBody(prev, r, data, n, want) ==
    /\ want > 0
    /\ r.state \in {3, 4}
    /\ n = Least(want - Len(prev.Body), Len(data))
    /\ r.Body = prev.Body \o SubSeq(data, 1, n)
    /\ (r.state = 4) = (Len(r.Body) = want)

\* C19: for a request without Transfer-Encoding whose Content-Length is
\* absent or a decimal number within the cap: the call of parse that reads
\* the blank line ending the headers moves to Done with an empty Body when
\* Content-Length is absent or 0; otherwise it moves to ParsingBody, every
\* call of parse appends to Body the first min(Content-Length - len(Body),
\* len(data)) of the bytes it is given and no more, the state is Done
\* exactly when len(Body) equals Content-Length, and Body is made of the
\* first Content-Length bytes that follow the header block.
BodyCompletion ==
    (pt.calls > 0 /\ pt.err = "nil" /\ Announced(pt.r.Headers) \in 0..(10 * 1024 * 1024)) =>
        /\ (pt.prev.state \in {1, 2} /\ pt.r.state \in {3, 4})
              => AfterBlankLine(pt.r, pt.data, pt.n, Announced(pt.r.Headers))
        /\ pt.prev.state = 3
              => InBody(pt.prev, pt.r, pt.data, pt.n, Announced(pt.r.Headers))
        /\ pt.r.state = 3 => Len(pt.r.Body) < Announced(pt.r.Headers)
        /\ pt.r.state = 4 => Len(pt.r.Body) = Announced(pt.r.Headers)

\* A body of four bytes was completed by a call that was given "abc" when
\* one byte was missing.
BodyCompletionWitness ==
    /\ pt.calls > 0 /\ pt.err = "nil"
    /\ Announced(pt.r.Headers) = 4
    /\ pt.prev.state = 3 /\ Len(pt.prev.Body) = 3
    /\ pt.data = <<97, 98, 99>>
    /\ pt.r.state = 4
    /\ pt.n = 1

(***************************************************************************)
(* C20: the framing decision by Content-Length.                            *)
(***************************************************************************)

\* The call of parse that ended in err left r in Error, with err captured,
\* and consumed nothing; no byte had been put in Body.
RefusedAtHeaders(prev, r, n, err) ==
    /\ r.state = 5
    /\ r.parseErr = err
    /\ n = 0
    /\ prev.Body = <<>> /\ r.Body = <<>>

\* The decision for the headers h of a request r for which the blank line
\* was read in the call that returned n and err, started on prev.
DecisionByValue(prev, r, n, err, present, v) ==
    /\ r.state \in {3, 4} =>
         /\ present => IsDecimal(v) /\ DecimalValue(v) <= 10 * 1024 * 1024
         /\ (~present \/ DecimalValue(v) = 0) => r.state = 4 /\ r.Body = <<>>
         /\ (present /\ DecimalValue(v) > 0) =>
               /\ Len(r.Body) <= DecimalValue(v)
               /\ (r.state = 4) = (Len(r.Body) = DecimalValue(v))
    /\ err = "bad Content-Length: %q" =>
         present /\ ~IsDecimal(v) /\ RefusedAtHeaders(prev, r, n, err)
    /\ err = "ErrMessageTooLarge" =>
         /\ present /\ IsDecimal(v) /\ DecimalValue(v) > 10 * 1024 * 1024
         /\ RefusedAtHeaders(prev, r, n, err)

\* C20: for a request without Transfer-Encoding, when the call of parse
\* reads the blank line that ends the headers: a Content-Length value that
\* is not a non-negative decimal integer is refused with the bad
\* Content-Length error; a value above 10 MiB is refused with
\* ErrMessageTooLarge; with the value 0 or no Content-Length the request is
\* Done with an empty Body; with any other value n a body of exactly n
\* bytes is expected.  A refused request is in Error at the end of the
\* headers with no byte consumed as body.
ContentLengthDecision ==
    (pt.calls > 0 /\ pt.prev.state \in {1, 2}
       /\ keyTransferEncoding \notin DOMAIN pt.r.Headers) =>
        DecisionByValue(pt.prev, pt.r, pt.n, pt.err,
                        keyContentLength \in DOMAIN pt.r.Headers,
                        TrimSpace(Get(pt.r.Headers, keyContentLength)))

(***************************************************************************)
(* C21: the cap on the buffer before the start line is parsed.             *)
(***************************************************************************)

\* A Read of RequestFromReader that returned bytes: total is len(buf) after
\* the append.
ReadCapped(total) ==
    /\ (req.state = 1 /\ total > 8 * 1024) =>
          /\ pc' = "returned"
          /\ ret' = Return(<<>>, "ErrMalformedRequestLine")
          /\ req' = req
    /\ (req.state = 1 /\ total <= 8 * 1024 /\ ret'.err = "ErrMalformedRequestLine") =>
          req'.state = 5 /\ req'.parseErr = "ErrMalformedRequestLine"
    /\ req.state # 1 => ret'.err # "ErrMalformedRequestLine"
    /\ (req.state \in {2, 3} /\ total > 8 * 1024) =>
          ret'.err \in {"nil", "ErrHeaderLineTooLong"}

\* C21: in RequestFromReader, when a Read has returned bytes while the
\* request is still Initialized and the buffer then holds more than 8 KiB,
\* the call fails with ErrMalformedRequestLine without parsing; once the
\* start line has been parsed a buffer of more than 8 KiB is not refused
\* for its size by the loop.
StartLineCap ==
    [][(pc = "RequestFromReader" /\ pos' > pos) => ReadCapped(Len(buf) + pos' - pos)]_vars

\* The start line was refused for the size of the buffer.
StartLineCapWitness ==
    /\ pc = "returned"
    /\ req.state = 1
    /\ Len(buf) > 8 * 1024
    /\ Len(buf) = pos
    /\ ret = Return(<<>>, "ErrMalformedRequestLine")

(***************************************************************************)
(* C22: a step that is given no whole line.                                *)
(***************************************************************************)

\* s holds no CRLF.
Unterminated(s) == \A i \in 1..(Len(s) - 1) : ~(s[i] = 13 /\ s[i + 1] = 10)

\* ParseRequestLine returned (nil, 0, nil).
LineSuspended(p) == p.rl = <<>> /\ p.n = 0 /\ p.err = "nil"

\* Headers.Parse returned (0, false, nil) and left the headers h.
HeadersSuspended(p, h) == p.n = 0 /\ ~p.done /\ p.err = "nil" /\ p.h = h

\* C22: when parse is given bytes that hold no CRLF and are not more than
\* 8 KiB, in state Initialized or ParsingHeaders, the step asks for more
\* data: ParseRequestLine returns (nil, 0, nil), Headers.Parse returns
\* (0, false, nil), parse returns (0, nil) and leaves the request as it
\* was (state, request line, headers); nothing being consumed, the caller
\* keeps all the bytes for the next call.
SuspensionContract ==
    (/\ pt.calls > 0
     /\ pt.prev.state \in {1, 2}
     /\ Unterminated(pt.data)
     /\ Len(pt.data) <= 8 * 1024) =>
        /\ pt.n = 0
        /\ pt.err = "nil"
        /\ pt.r = pt.prev
        /\ pt.prev.state = 1 => LineSuspended(ParseRequestLine(pt.data))
        /\ pt.prev.state = 2 =>
              HeadersSuspended(HeadersParse(pt.prev.Headers, pt.data), pt.prev.Headers)

\* parse was given a line of 8 KiB without its CRLF after a header line had
\* been stored, and asked for more.
SuspensionWitness ==
    /\ pt.calls > 1
    /\ pt.prev.state = 2
    /\ DOMAIN pt.prev.Headers # {}
    /\ Len(pt.data) = 8 * 1024
    /\ Unterminated(pt.data)
    /\ pt.n = 0 /\ pt.err = "nil" /\ pt.r.state = 2

(***************************************************************************)
(* C23: the headers of the Writer and the headers passed.                  *)
(***************************************************************************)

\* The lines of the block for the name k: the values after "Name: ".
LineStarts(block, prefix) ==
    { i \in 1..Len(block) :
        /\ i = 1 \/ (i > 2 /\ SubSeq(block, i - 2, i - 1) = <<13, 10>>)
        /\ i + Len(prefix) - 1 <= Len(block)
        /\ SubSeq(block, i, i + Len(prefix) - 1) = prefix }

\* The block holds one line for the name k, and it is "Name: v\r\n".
EmittedOnce(block, k, v) ==
    /\ Cardinality(LineStarts(block, CanonicalName(k) \o <<58, 32>>)) = 1
    /\ HasLine(block, CanonicalName(k) \o <<58, 32>> \o v \o <<13, 10>>)

\* Content-Length is left out of the block: the effective Transfer-Encoding
\* names chunked.
LeftOut(wh, h, k) ==
    /\ k = <<99, 111, 110, 116, 101, 110, 116, 45, 108, 101, 110, 103, 116, 104>>
    /\ IsTokenOf(ToLower(EffVal(wh, h, <<116, 114, 97, 110, 115, 102, 101, 114, 45, 101, 110, 99, 111, 100, 105, 110, 103>>)), <<99, 104, 117, 110, 107, 101, 100>>)

\* The block holds no line for the name k.
NotEmitted(block, k) == LineStarts(block, CanonicalName(k) \o <<58, 32>>) = {}

\* C23 as the spec states it: after WriteHeaders(h), whatever h is, every
\* name set in the Writer's Headers is emitted once with the Writer's value,
\* and every name that only h holds is emitted with the value of h; the same
\* of the block Server.handle has written for the default headers.
WriterHeadersWinAlways ==
    /\ (wt.op = "WriteHeaders" /\ wt.err = "nil") =>
          /\ \A k \in DOMAIN wt.wh :
               EmittedOnce(AllWritten(wt.writes), k, wt.wh[k])
          /\ \A k \in (DOMAIN wt.h) \ (DOMAIN wt.wh) :
               EmittedOnce(AllWritten(wt.writes), k, wt.h[k])
    /\ pc = "WriteBody" =>
          /\ \A k \in DOMAIN writer.Headers :
               EmittedOnce(HeaderBlockOf(events), k, writer.Headers[k])
          /\ \A k \in (DOMAIN DefaultsFor(Len(writer.Body))) \ (DOMAIN writer.Headers) :
               EmittedOnce(HeaderBlockOf(events), k, DefaultsFor(Len(writer.Body))[k])

\* C23: the headers of the Writer win, two cases aside.  After
\* WriteHeaders(h) with h not nil, every name set in the Writer's Headers is
\* emitted once with the Writer's value, which replaces the value h held for
\* the name and is not joined to it, and every name that only h holds is
\* emitted once with the value of h; Content-Length alone is emitted by
\* neither rule, and has no line at all, when the effective Transfer-Encoding
\* names chunked.  After WriteHeaders(nil) no header of the Writer is
\* emitted: the block is the one "\r\n".  Server.handle, which passes the
\* default headers, emits the Writer's content-type in place of the default
\* text/plain, and the defaults the Writer does not set.
WriterHeadersWin ==
    /\ (wt.op = "WriteHeaders" /\ wt.err = "nil" /\ ~wt.hnil) =>
          /\ \A k \in DOMAIN wt.wh :
               IF LeftOut(wt.wh, wt.h, k) THEN NotEmitted(AllWritten(wt.writes), k)
               ELSE EmittedOnce(AllWritten(wt.writes), k, wt.wh[k])
          /\ \A k \in (DOMAIN wt.h) \ (DOMAIN wt.wh) :
               IF LeftOut(wt.wh, wt.h, k) THEN NotEmitted(AllWritten(wt.writes), k)
               ELSE EmittedOnce(AllWritten(wt.writes), k, wt.h[k])
    /\ (wt.op = "WriteHeaders" /\ wt.err = "nil" /\ wt.hnil) =>
          AllWritten(wt.writes) = <<13, 10>>
    /\ pc = "WriteBody" =>
          /\ \A k \in DOMAIN writer.Headers :
               IF LeftOut(writer.Headers, DefaultsFor(Len(writer.Body)), k)
               THEN NotEmitted(HeaderBlockOf(events), k)
               ELSE EmittedOnce(HeaderBlockOf(events), k, writer.Headers[k])
          /\ \A k \in (DOMAIN DefaultsFor(Len(writer.Body))) \ (DOMAIN writer.Headers) :
               IF LeftOut(writer.Headers, DefaultsFor(Len(writer.Body)), k)
               THEN NotEmitted(HeaderBlockOf(events), k)
               ELSE EmittedOnce(HeaderBlockOf(events), k, DefaultsFor(Len(writer.Body))[k])

\* WriteHeaders was given the default headers on a Writer whose content-type
\* is text/html, and wrote the block.
WriterHeadersWinWitness ==
    /\ wt.op = "WriteHeaders" /\ wt.err = "nil" /\ ~wt.hnil
    /\ <<99, 111, 110, 116, 101, 110, 116, 45, 116, 121, 112, 101>> \in DOMAIN wt.wh
    /\ wt.wh[<<99, 111, 110, 116, 101, 110, 116, 45, 116, 121, 112, 101>>] = <<116, 101, 120, 116, 47, 104, 116, 109, 108>>
    /\ <<99, 111, 110, 116, 101, 110, 116, 45, 116, 121, 112, 101>> \in DOMAIN wt.h
    /\ wt.h[<<99, 111, 110, 116, 101, 110, 116, 45, 116, 121, 112, 101>>] = <<116, 101, 120, 116, 47, 112, 108, 97, 105, 110>>
    /\ <<99, 111, 110, 110, 101, 99, 116, 105, 111, 110>> \in DOMAIN wt.h

\* WriteHeaders(nil) on a Writer that holds a header wrote its block.
WriterHeadersNilReached ==
    /\ wt.op = "WriteHeaders" /\ wt.err = "nil" /\ wt.hnil
    /\ DOMAIN wt.wh # {}

\* WriteHeaders was given a Content-Length that only h holds, on a Writer
\* whose Transfer-Encoding names chunked, and wrote its block.
WriterHeadersChunkedReached ==
    /\ wt.op = "WriteHeaders" /\ wt.err = "nil" /\ ~wt.hnil
    /\ <<99, 111, 110, 116, 101, 110, 116, 45, 108, 101, 110, 103, 116, 104>> \in (DOMAIN wt.h) \ (DOMAIN wt.wh)
    /\ LeftOut(wt.wh, wt.h, <<99, 111, 110, 116, 101, 110, 116, 45, 108, 101, 110, 103, 116, 104>>)

(***************************************************************************)
(* C24: a write of the response fails.                                     *)
(***************************************************************************)

\* The calls of Server.handle after its call number i.
CallsAfter(i) == { events[j].call : j \in (i + 1)..Len(events) }

\* The write number i failed: the record of it in the log has status 500,
\* and it is the last record.
FailureLogged ==
    /\ Len(log) = 1
    /\ log[1].status = 500
    /\ log[1].err # "nil"

\* C24: a write failure ends the writing.  When the write of the status
\* line fails, no header and no body is written; when a write of the header
\* block fails, no further header line and no body is written; the failed
\* write is not made again, it is logged, and handle returns, which closes
\* the connection.
WriteFailureAborts ==
    \A i \in 1..Len(events) :
        (~events[i].ok /\ events[i].call \in {"WriteStatusLine", "WriteHeaders", "WriteBody"}) =>
            /\ CallsAfter(i) = {"conn.Close"}
            /\ Len(events) = i + 1
            /\ pc = "closed"
            /\ FailureLogged
            /\ events[i].call = "WriteStatusLine" =>
                  \A j \in 1..Len(events) :
                      j # i => events[j].call \notin {"WriteStatusLine", "WriteHeaders", "WriteBody"}
            /\ events[i].call = "WriteHeaders" =>
                  \A j \in 1..Len(events) : events[j].call # "WriteBody"

\* A write of the header block failed after the status line and a header
\* line had been written.
WriteFailureWitness ==
    /\ pc = "closed"
    /\ Len(events) >= 5
    /\ events[2].call = "WriteStatusLine" /\ events[2].ok
    /\ events[3].call = "WriteHeaders" /\ events[3].ok
    /\ events[Len(events) - 1].call = "WriteHeaders" /\ ~events[Len(events) - 1].ok
    /\ events[Len(events)].call = "conn.Close"

(***************************************************************************)
(* C25: the errors of Accept.                                              *)
(***************************************************************************)

\* The outcome of the last call of Accept.
LastAccept == sv.accepts[Len(sv.accepts)]

\* C25: an error of Accept ends the accept loop only during shutdown.  The
\* loop returns only after an error of Accept that comes while the flag
\* closed is set or that is net.ErrClosed (the listener is closed); after
\* any other error of Accept the loop is still running, and while the
\* listener is open a connection that arrives is accepted and its task
\* started by the go statement that follows, whatever errors came before
\* (as long as the program runs: the panic of a handler ends it).
AcceptErrorsNotFatal ==
    /\ [](sv.loop = "returned" =>
            /\ sv.accepts # <<>> /\ LastAccept = "error, return"
            /\ sv.closed)
    /\ [][(sv.loop = "Accept" /\ sv'.loop = "returned") =>
            (sv.closed \/ sv.listener = "closed")]_vars
    /\ [][(Len(sv'.accepts) > Len(sv.accepts) /\ ~sv.closed /\ sv.listener = "open") =>
            sv'.loop \in {"Accept", "go handle"}]_vars
    /\ []((sv.loop = "Accept" /\ sv.listener = "open" /\ Accepted < MaxConns
              /\ ~ProcessEnded)
            => ENABLED AcceptConn)
    /\ []((sv.loop = "go handle" /\ ~ProcessEnded) => ENABLED GoHandle)
    /\ [][(sv.loop = "go handle" /\ sv'.loop # sv.loop) =>
            (sv'.loop = "Accept" /\ sv'.spawned = sv.spawned + 1)]_vars

\* Accept failed while the server was open, then gave a connection, whose
\* task has run to its end.
AcceptErrorsWitness ==
    /\ Len(sv.accepts) >= 2
    /\ sv.accepts[1] = "error, continue"
    /\ sv.accepts[2] = "conn"
    /\ ~sv.closed
    /\ sv.loop = "Accept"
    /\ pc = "closed"

(***************************************************************************)
(* C26: what RequestFromReader returns.                                    *)
(***************************************************************************)

\* The body of the request r is whole: as long as Content-Length says when
\* its value is a decimal number, empty when there is no Content-Length (or
\* none with a number in it).
BodyWhole(r) ==
    IF keyContentLength \in DOMAIN r.Headers
          /\ IsDecimal(TrimSpace(r.Headers[keyContentLength]))
    THEN Len(r.Body) = DecimalValue(TrimSpace(r.Headers[keyContentLength]))
    ELSE r.Body = <<>>

\* The request r is complete.
Complete(r) ==
    /\ r.state = 4
    /\ Len(r.RequestLine) = 1
    /\ r.parseErr = "nil"
    /\ BodyWhole(r)

\* C26: only complete requests are returned.  When RequestFromReader
\* returns no error, the request it returns is Done, has its request line,
\* and its Body is as long as the Content-Length it declares (empty without
\* one, or with 0); when it returns an error it returns no request; so the
\* handler is only ever called with a request that is Done.
OnlyCompleteRequests ==
    pc # "RequestFromReader" =>
        /\ ret.err = "nil" => Len(ret.req) = 1 /\ ret.req[1] = req /\ Complete(ret.req[1])
        /\ ret.err # "nil" => ret.req = <<>>
        /\ (\E i \in 1..Len(events) : events[i].call = "handler") =>
              ret.err = "nil" /\ Complete(ret.req[1])

\* The handler was called with a request whose body of two octets had come
\* in reads of a few octets.
OnlyCompleteWitness ==
    /\ pc # "RequestFromReader"
    /\ ret.err = "nil"
    /\ Len(ret.req[1].Body) = 2
    /\ stream.sizes = 1..MaxFrag
    /\ \E i \in 1..Len(events) : events[i].call = "handler"

(***************************************************************************)
(* C27: what one request can make the server hold.                         *)
(***************************************************************************)

\* The most the buffer of RequestFromReader holds at the end of an
\* iteration, by the state of the request.
Retained(state) ==
    CASE state = 1 -> 8 * 1024
      [] state = 2 -> 8 * 1024
      [] state = 3 -> 0
      [] OTHER -> 8 * 1024

\* The Body is not longer than the Content-Length declared, which is at
\* most 10 MiB; without a Content-Length there is no Body.
BodyBounded(r) ==
    IF keyContentLength \in DOMAIN r.Headers
          /\ IsDecimal(TrimSpace(r.Headers[keyContentLength]))
    THEN /\ Len(r.Body) <= DecimalValue(TrimSpace(r.Headers[keyContentLength]))
         /\ r.state \in {3, 4} =>
               DecimalValue(TrimSpace(r.Headers[keyContentLength])) <= 10 * 1024 * 1024
    ELSE r.Body = <<>>

\* C27: bounded buffering.  At the end of every iteration of the loop of
\* RequestFromReader that did not return an error the buffer holds at most
\* 8 KiB of bytes not consumed: at most the start-line cap while
\* Initialized, at most the header-line cap while ParsingHeaders, none
\* while ParsingBody; and in every state the Body is not longer than the
\* declared Content-Length, which is at most 10 MiB once a body is read.
BoundedBuffering ==
    /\ (pc = "RequestFromReader" \/ (pc # "listener.Accept" /\ ret.err = "nil")) =>
          /\ Len(buf) <= Retained(req.state)
          /\ req.state # 5
    /\ BodyBounded(req)
    /\ Len(req.Body) <= 10 * 1024 * 1024

\* The buffer holds 8 KiB of a start line that has not ended, and the loop
\* goes on.
BoundedBufferingWitness ==
    /\ pc = "RequestFromReader"
    /\ req.state = 1
    /\ Len(buf) = 8 * 1024
    /\ pos = 8 * 1024

(***************************************************************************)
(* C28: termination.  A Read of the connection returns (with bytes, or     *)
(* with the end of the stream), and the goroutine of handle is scheduled:  *)
(* weak fairness of the steps of handle.                                   *)
(***************************************************************************)

SpecLive ==
    /\ Init
    /\ [][Next]_vars
    /\ WF_vars(ReadEnd)
    /\ HandleFair

\* Request.parse(data): the iterations of the loop labelled outer from the
\* one that starts with read bytes consumed on, each as the state and the
\* count of consumed bytes it starts with.  An iteration that neither breaks
\* or returns nor makes progress would start the next one as it started
\* itself, for ever: the sequence is cut after the first repetition.
RECURSIVE Iterations(_, _, _)
IterationsNext(progress, r, data, read) ==
    IF progress THEN Iterations(r, data, read)
    ELSE <<[state |-> r.state, read |-> read]>>
IterationsHeaders(r, data, read, p) ==
    IF p.err # "nil" \/ (p.n = 0 /\ ~p.done) THEN <<>>
    ELSE IF ~p.done
    THEN IterationsNext(p.n > 0, [r EXCEPT !.Headers = p.h], data, read + p.n)
    ELSE IF hasBody(p.h).err # "nil" \/ ~hasBody(p.h).has THEN <<>>
    ELSE IterationsNext(TRUE, [r EXCEPT !.Headers = p.h, !.state = RequestParsingBody],
                        data, read + p.n)
IterationsLine(r, data, read, p) ==
    IF p.err # "nil" \/ p.n = 0 THEN <<>>
    ELSE IterationsNext(TRUE,
                        [r EXCEPT !.RequestLine = p.rl, !.state = RequestParsingHeaders],
                        data, read + p.n)
Iterations(r, data, read) ==
    <<[state |-> r.state, read |-> read]>> \o
    (IF r.state = RequestInitialized
     THEN IterationsLine(r, data, read, ParseRequestLine(SubSeq(data, read + 1, Len(data))))
     ELSE IF r.state = RequestParsingHeaders
     THEN IterationsHeaders(r, data, read,
                            HeadersParse(r.Headers, SubSeq(data, read + 1, Len(data))))
     ELSE <<>>)

\* Every iteration but the last has moved the state forward or consumed
\* bytes.
Progressing(its) ==
    \A i \in 1..(Len(its) - 1) :
        \/ its[i + 1].state > its[i].state
        \/ its[i + 1].state = its[i].state /\ its[i + 1].read > its[i].read

\* C28: the driving loop terminates.  On a stream that delivers its bytes
\* in reads of at least one byte and then ends (end of stream or a read
\* error), every iteration of the loop of RequestFromReader that does not
\* return has taken bytes from the stream, every call of parse ends (each
\* iteration of its loop breaks, returns, or makes progress), and
\* RequestFromReader returns in the end.
LoopTerminates ==
    /\ [][(pc = "RequestFromReader" /\ pc' = "RequestFromReader") => pos' > pos]_vars
    /\ [][(pc = "RequestFromReader" /\ pos' > pos) =>
            Progressing(Iterations(req, buf \o SubSeq(stream.bytes, pos + 1, pos'), 0))]_vars
    /\ (pc = "RequestFromReader") ~> (pc # "RequestFromReader")
    /\ [](pc # "RequestFromReader" => pos <= Len(stream.bytes))

\* RequestFromReader has returned after it read a stream of more than
\* 8 KiB to its end; parse takes two iterations on the whole of it.
LoopTerminatesWitness ==
    /\ pc = "returned"
    /\ stream.bytes = longHeaderRequest
    /\ pos = Len(stream.bytes)
    /\ ret.err = "nil"
    /\ Len(Iterations(newRequest, stream.bytes, 0)) = 2

====
